---- MODULE Spec2Model ----
(***************************************************************************)
(* srf: a static file server (src/server.js).  The model follows one HTTP  *)
(* request through the handler built by handlerFactory: the request target *)
(* is parsed, safeJoin maps it below the served root, the filesystem is    *)
(* probed, and serveFile / sendError / the directory listing write the     *)
(* response.  Strings the code inspects character by character (the        *)
(* request target, filesystem paths, ETags, the Range header) are          *)
(* sequences of one-character strings; POSIX path rules are modelled.      *)
(***************************************************************************)
EXTENDS Integers, Sequences, FiniteSets, TLC

\* ------------------------------------------------------------------ text

\* U+0000, and the other C0 control characters, in caret notation.
NUL == "^@"

ControlChars == <<
    "^@", "^A", "^B", "^C", "^D", "^E", "^F", "^G",
    "^H", "^I", "^J", "^K", "^L", "^M", "^N", "^O",
    "^P", "^Q", "^R", "^S", "^T", "^U", "^V", "^W",
    "^X", "^Y", "^Z", "^[", "^\\", "^]", "^^", "^_" >>

\* The printable ASCII characters, code 32 (space) to 126 (~); the grave
\* accent (code 96) is written out.
PrintableChars == <<
    " ", "!", "\"", "#", "$", "%", "&", "'", "(", ")", "*", "+", ",", "-", ".", "/",
    "0", "1", "2", "3", "4", "5", "6", "7", "8", "9", ":", ";", "<", "=", ">", "?",
    "@", "A", "B", "C", "D", "E", "F", "G", "H", "I", "J", "K", "L", "M", "N", "O",
    "P", "Q", "R", "S", "T", "U", "V", "W", "X", "Y", "Z", "[", "\\", "]", "^", "_",
    "grave", "a", "b", "c", "d", "e", "f", "g", "h", "i", "j", "k", "l", "m", "n", "o",
    "p", "q", "r", "s", "t", "u", "v", "w", "x", "y", "z", "{", "|", "}", "~" >>

\* A character outside ASCII; the model does not tell such characters apart.
NonAscii == "U+"

CharOfCode(b) ==
    IF b < 32 THEN ControlChars[b + 1]
    ELSE IF b = 127 THEN "^?"
    ELSE PrintableChars[b - 31]

HexDigits == <<"0", "1", "2", "3", "4", "5", "6", "7",
               "8", "9", "a", "b", "c", "d", "e", "f">>

UpperHex == <<"A", "B", "C", "D", "E", "F">>

IsHex(c) ==
    \/ \E i \in 1..16 : HexDigits[i] = c
    \/ \E i \in 1..6 : UpperHex[i] = c

HexVal(c) ==
    IF \E i \in 1..16 : HexDigits[i] = c
    THEN (CHOOSE i \in 1..16 : HexDigits[i] = c) - 1
    ELSE (CHOOSE i \in 1..6 : UpperHex[i] = c) + 9

DecDigits == <<"0", "1", "2", "3", "4", "5", "6", "7", "8", "9">>

IsDigit(c) == \E i \in 1..10 : DecDigits[i] = c

DigitVal(c) == (CHOOSE i \in 1..10 : DecDigits[i] = c) - 1

\* String.prototype.startsWith
startsWith(s, p) == Len(p) <= Len(s) /\ SubSeq(s, 1, Len(p)) = p

\* String.prototype.endsWith
endsWith(s, p) == Len(p) <= Len(s) /\ SubSeq(s, Len(s) - Len(p) + 1, Len(s)) = p

\* String.prototype.includes, for a one-character needle
includes(s, c) == \E i \in 1..Len(s) : s[i] = c

\* The position of the first character of s, at or after i, that is in cs;
\* Len(s) + 1 when there is none.
RECURSIVE IndexOfAny(_, _, _)
IndexOfAny(s, cs, i) ==
    IF i > Len(s) THEN Len(s) + 1
    ELSE IF s[i] \in cs THEN i
    ELSE IndexOfAny(s, cs, i + 1)

\* String.prototype.split on any of the separator characters cs.
RECURSIVE SplitOn(_, _)
SplitOn(s, cs) ==
    LET k == IndexOfAny(s, cs, 1)
    IN  IF k > Len(s) THEN <<s>>
        ELSE <<SubSeq(s, 1, k - 1)>> \o SplitOn(SubSeq(s, k + 1, Len(s)), cs)

\* Array.prototype.join
RECURSIVE JoinWith(_, _)
JoinWith(parts, sep) ==
    IF parts = <<>> THEN <<>>
    ELSE IF Len(parts) = 1 THEN parts[1]
    ELSE parts[1] \o sep \o JoinWith(Tail(parts), sep)

\* Number.prototype.toString(16) of a non-negative integer
RECURSIVE toString16(_)
toString16(n) ==
    IF n < 16 THEN <<HexDigits[n + 1]>>
    ELSE toString16(n \div 16) \o <<HexDigits[(n % 16) + 1]>>

\* The decimal text of a non-negative integer, as a template literal prints it
RECURSIVE toString10(_)
toString10(n) ==
    IF n < 10 THEN <<DecDigits[n + 1]>>
    ELSE toString10(n \div 10) \o <<DecDigits[(n % 10) + 1]>>

\* ------------------------------------------------ decodeURIComponent

\* "%" followed by two hex digits at position i of s
IsEscapeAt(s, i) ==
    /\ i + 2 <= Len(s)
    /\ s[i] = "%"
    /\ IsHex(s[i + 1])
    /\ IsHex(s[i + 2])

ByteAt(s, i) == 16 * HexVal(s[i + 1]) + HexVal(s[i + 2])

\* The length of the UTF-8 sequence a lead byte starts; 0 for a byte that
\* starts none (a continuation byte, an overlong lead, a byte above F4).
Utf8Len(b) ==
    IF b < 128 THEN 1
    ELSE IF b \in 194..223 THEN 2
    ELSE IF b \in 224..239 THEN 3
    ELSE IF b \in 240..244 THEN 4
    ELSE 0

\* The k-th byte (k >= 2) of the sequence whose lead byte b is escaped at i
\* is an escaped continuation byte in the range UTF-8 allows there.
ContinuationByteOk(b, k, c) ==
    /\ c \in 128..191
    /\ (k = 2 /\ b = 224) => c >= 160
    /\ (k = 2 /\ b = 237) => c <= 159
    /\ (k = 2 /\ b = 240) => c >= 144
    /\ (k = 2 /\ b = 244) => c <= 143

ContinuationOk(s, i, b, k) ==
    /\ IsEscapeAt(s, i + 3 * (k - 1))
    /\ ContinuationByteOk(b, k, ByteAt(s, i + 3 * (k - 1)))

\* decodeURIComponent: every %XX escape is decoded, once; a "%" that starts
\* no escape, or escaped bytes that are not UTF-8, throw URIError (ok = FALSE).
\* DecodeEscape decodes the escape at i, whose first byte is b and whose
\* UTF-8 sequence has n bytes.
RECURSIVE DecodeFrom(_, _, _), DecodeEscape(_, _, _, _, _)
DecodeFrom(s, i, acc) ==
    IF i > Len(s) THEN [ok |-> TRUE, str |-> acc]
    ELSE IF s[i] # "%" THEN DecodeFrom(s, i + 1, Append(acc, s[i]))
    ELSE IF ~IsEscapeAt(s, i) THEN [ok |-> FALSE, str |-> <<>>]
    ELSE DecodeEscape(s, i, acc, ByteAt(s, i), Utf8Len(ByteAt(s, i)))

DecodeEscape(s, i, acc, b, n) ==
    IF n = 0 THEN [ok |-> FALSE, str |-> <<>>]
    ELSE IF n = 1 THEN DecodeFrom(s, i + 3, Append(acc, CharOfCode(b)))
    ELSE IF \A k \in 2..n : ContinuationOk(s, i, b, k)
    THEN DecodeFrom(s, i + 3 * n, Append(acc, NonAscii))
    ELSE [ok |-> FALSE, str |-> <<>>]

decodeURIComponent(s) == DecodeFrom(s, 1, <<>>)

\* decodeURI: as decodeURIComponent, except that the escape of one of
\* ; / ? : @ & = + $ , # stays as it is written
UriReserved == {";", "/", "?", ":", "@", "&", "=", "+", "$", ",", "#"}

RECURSIVE DecodeUriFrom(_, _, _), DecodeUriEscape(_, _, _, _, _)
DecodeUriFrom(s, i, acc) ==
    IF i > Len(s) THEN [ok |-> TRUE, str |-> acc]
    ELSE IF s[i] # "%" THEN DecodeUriFrom(s, i + 1, Append(acc, s[i]))
    ELSE IF ~IsEscapeAt(s, i) THEN [ok |-> FALSE, str |-> <<>>]
    ELSE DecodeUriEscape(s, i, acc, ByteAt(s, i), Utf8Len(ByteAt(s, i)))

DecodeUriEscape(s, i, acc, b, n) ==
    IF n = 0 THEN [ok |-> FALSE, str |-> <<>>]
    ELSE IF n = 1
    THEN DecodeUriFrom(s, i + 3,
             IF CharOfCode(b) \in UriReserved
             THEN acc \o SubSeq(s, i, i + 2)
             ELSE Append(acc, CharOfCode(b)))
    ELSE IF \A k \in 2..n : ContinuationOk(s, i, b, k)
    THEN DecodeUriFrom(s, i + 3 * n, Append(acc, NonAscii))
    ELSE [ok |-> FALSE, str |-> <<>>]

decodeURI(s) == DecodeUriFrom(s, 1, <<>>)

\* The code of an ASCII character
CodeOf(c) == CHOOSE b \in 0..127 : CharOfCode(b) = c

\* "%XX" for a byte, in upper-case hex as the URL parser and encodeURI write it
UpperHexDigits == <<"0", "1", "2", "3", "4", "5", "6", "7",
                    "8", "9", "A", "B", "C", "D", "E", "F">>

PercentByte(b) == <<"%", UpperHexDigits[(b \div 16) + 1], UpperHexDigits[(b % 16) + 1]>>

\* The escape of a character; a character outside ASCII is escaped as the
\* two bytes of U+00E9
PercentChar(c) ==
    IF c = NonAscii THEN PercentByte(195) \o PercentByte(169) ELSE PercentByte(CodeOf(c))

\* encodeURI: letters, digits, - _ . ! ~ * ' ( ) and the reserved characters
\* stay, every other character is escaped
UriUnescaped ==
    {PrintableChars[i] : i \in (17..26) \cup (34..59) \cup (66..91)}
    \cup {"-", "_", ".", "!", "~", "*", "'", "(", ")"}

RECURSIVE encodeURI(_)
encodeURI(s) ==
    IF s = <<>> THEN <<>>
    ELSE (IF Head(s) \in UriUnescaped \cup UriReserved THEN <<Head(s)>>
          ELSE PercentChar(Head(s))) \o encodeURI(Tail(s))

\* --------------------------------------------------------- node:path

\* normalizeString of node:path (POSIX) for an absolute path: empty and "."
\* segments are dropped, ".." removes the segment before it and is dropped
\* at the root.
RECURSIVE NormalizeSegments(_, _)
NormalizeSegments(segs, acc) ==
    IF segs = <<>> THEN acc
    ELSE LET s == Head(segs)
         IN  IF s = <<>> \/ s = <<".">> THEN NormalizeSegments(Tail(segs), acc)
             ELSE IF s = <<".", ".">>
                  THEN NormalizeSegments(Tail(segs),
                           IF acc = <<>> THEN acc ELSE SubSeq(acc, 1, Len(acc) - 1))
                  ELSE NormalizeSegments(Tail(segs), Append(acc, s))

\* path.resolve(from, to) for an absolute `from`: an absolute `to` replaces
\* it, a relative one is appended; the result is normalized, with no
\* trailing slash.  Only "/" separates segments (POSIX).
pathResolve(from, to) ==
    LET joined == IF to # <<>> /\ to[1] = "/" THEN to ELSE from \o <<"/">> \o to
    IN  <<"/">> \o JoinWith(NormalizeSegments(SplitOn(joined, {"/"}), <<>>), <<"/">>)

\* path.join(dir, name) for an absolute dir
pathJoin(dir, name) == pathResolve(dir, <<".", "/">> \o name)

\* path.extname: from the last "." of the last segment, "" when that segment
\* has no "." or only a leading one.
RECURSIVE LastIndexOf(_, _, _)
LastIndexOf(s, c, i) ==
    IF i = 0 THEN 0
    ELSE IF s[i] = c THEN i
    ELSE LastIndexOf(s, c, i - 1)

ExtnameOf(base, k) == IF k <= 1 THEN <<>> ELSE SubSeq(base, k, Len(base))

LastOf(seq) == seq[Len(seq)]

BasenameExt(base) == ExtnameOf(base, LastIndexOf(base, ".", Len(base)))

pathExtname(p) == BasenameExt(LastOf(SplitOn(p, {"/"})))

\* --------------------------------------------------------- safeJoin

\* safeJoin were the decoded path cut at its first NUL
RECURSIVE CutAtNul(_)
CutAtNul(s) ==
    IF s = <<>> \/ Head(s) = NUL THEN <<>> ELSE <<Head(s)>> \o CutAtNul(Tail(s))

\* decoded.replace of every U+0000 by the empty string
RECURSIVE StripNul(_)
StripNul(s) ==
    IF s = <<>> THEN <<>>
    ELSE IF Head(s) = NUL THEN StripNul(Tail(s))
    ELSE <<Head(s)>> \o StripNul(Tail(s))

\* What safeJoin refuses
NoPath == <<"null">>

\* resolved.startsWith(root), else null
Confined(root, resolved) == IF ~startsWith(resolved, root) THEN NoPath ELSE resolved

\* safeJoin were a path that does not decode taken as a path above the root
DecodedOrAbove(d, fallback) == IF d.ok THEN d.str ELSE <<"/", ".", ".">>

\* decoded = decodeURIComponent(requestPath), "/" when it throws
DecodedOr(d, fallback) == IF d.ok THEN d.str ELSE fallback

\* safeJoin were the decoded path decoded once more before it is resolved
safeJoinDecodedTwice(root, requestPath) ==
    Confined(root, pathResolve(root,
        <<".">> \o StripNul(DecodedOr(decodeURIComponent(
            DecodedOr(decodeURIComponent(requestPath), <<"/">>)), <<"/">>))))

safeJoin(root, requestPath) ==
    Confined(root,
        pathResolve(root,
            <<".">> \o StripNul(DecodedOr(decodeURIComponent(requestPath), <<"/">>))))

\* ------------------------------------------------- the request target

\* new URL(req.url, base) throws TypeError
InvalidUrl == <<"TypeError">>

\* String.prototype.toLowerCase, one character
toLowerCaseChar(c) ==
    IF \E i \in 34..59 : PrintableChars[i] = c
    THEN PrintableChars[(CHOOSE i \in 34..59 : PrintableChars[i] = c) + 32]
    ELSE c

toLowerCase(s) == [i \in 1..Len(s) |-> toLowerCaseChar(s[i])]

\* The URL parser's single-dot and double-dot path segments
IsSingleDotSegment(seg) == toLowerCase(seg) \in {<<".">>, <<"%", "2", "e">>}

IsDoubleDotSegment(seg) ==
    toLowerCase(seg) \in {<<".", ".">>, <<".", "%", "2", "e">>, <<"%", "2", "e", ".">>, <<"%", "2", "e", "%", "2", "e">>}

\* The URL parser's path state for an http URL: a double-dot segment removes
\* the segment before it, a single-dot segment is dropped, and either leaves
\* an empty segment when it ends the path.
Shorten(acc) == IF acc = <<>> THEN acc ELSE SubSeq(acc, 1, Len(acc) - 1)

EndWith(acc, last) == IF last THEN Append(acc, <<>>) ELSE acc

RECURSIVE UrlPathSegments(_, _)
UrlPathSegments(segs, acc) ==
    IF segs = <<>> THEN acc
    ELSE IF IsDoubleDotSegment(Head(segs))
    THEN UrlPathSegments(Tail(segs), EndWith(Shorten(acc), Len(segs) = 1))
    ELSE IF IsSingleDotSegment(Head(segs))
    THEN UrlPathSegments(Tail(segs), EndWith(acc, Len(segs) = 1))
    ELSE UrlPathSegments(Tail(segs), Append(acc, Head(segs)))

\* The URL parser's percent-decoding of a host: an escape becomes its
\* character, a "%" that starts no escape stays.
RECURSIVE PercentDecodeHost(_, _)
PercentDecodeHost(s, i) ==
    IF i > Len(s) THEN <<>>
    ELSE IF IsEscapeAt(s, i)
    THEN <<IF ByteAt(s, i) < 128 THEN CharOfCode(ByteAt(s, i)) ELSE NonAscii>>
             \o PercentDecodeHost(s, i + 3)
    ELSE <<s[i]>> \o PercentDecodeHost(s, i + 1)

ForbiddenHostChars ==
    {ControlChars[i] : i \in 1..32} \cup
    {"^?", " ", "#", "/", ":", "<", ">", "?", "@", "[", "\\", "]", "^", "|", "%"}

\* The host parser accepts a host that is not empty and holds, once
\* percent-decoded, no forbidden host character.
NoForbiddenHostChar(d) == \A i \in 1..Len(d) : d[i] \notin ForbiddenHostChars

HostOk(host) == host # <<>> /\ NoForbiddenHostChar(PercentDecodeHost(host, 1))

\* The position of the first character of s, at or after i, that is not in cs
RECURSIVE IndexOfNone(_, _, _)
IndexOfNone(s, cs, i) ==
    IF i > Len(s) THEN Len(s) + 1
    ELSE IF s[i] \notin cs THEN i
    ELSE IndexOfNone(s, cs, i + 1)

\* new URL(req.url, `http://${req.headers.host}`).pathname for a request
\* target that starts with "/".  The path ends at the first "?" or "#"; "\"
\* separates segments like "/"; a target that starts with two separators is
\* scheme-relative, its first segment is parsed as the host.
UrlSeparators == {"/", "\\"}

\* The URL parser's path percent-encode set: the characters of a path it
\* writes as escapes (controls, space, " < > grave { }, and those outside
\* ASCII; "?" and "#" end the path before it)
UrlPathEncodeSet ==
    {ControlChars[i] : i \in 1..32} \cup {"^?", " ", "\"", "<", ">", "grave", "{", "}", NonAscii}

RECURSIVE UrlPathEncode(_)
UrlPathEncode(s) ==
    IF s = <<>> THEN <<>>
    ELSE (IF Head(s) \in UrlPathEncodeSet THEN PercentChar(Head(s)) ELSE <<Head(s)>>)
         \o UrlPathEncode(Tail(s))

\* The pathname of the path the parser is left with after the host: its
\* first separator starts the path.
PathnameOf(pathPart) ==
    <<"/">> \o JoinWith(UrlPathSegments(
                 SplitOn(UrlPathEncode(SubSeq(pathPart, 2, Len(pathPart))),
                         UrlSeparators), <<>>), <<"/">>)

\* A scheme-relative target whose host starts at hostStart and ends before hostEnd
HostAndPath(cut, hostStart, hostEnd) ==
    IF ~HostOk(SubSeq(cut, hostStart, hostEnd - 1)) THEN InvalidUrl
    ELSE PathnameOf(SubSeq(cut, hostEnd, Len(cut)))

HostFrom(cut, hostStart) ==
    HostAndPath(cut, hostStart, IndexOfAny(cut, UrlSeparators, hostStart))

\* cut: the target up to its query or fragment
UrlOf(cut) ==
    IF Len(cut) >= 2 /\ cut[2] \in UrlSeparators
    THEN HostFrom(cut, IndexOfNone(cut, UrlSeparators, 1))
    ELSE PathnameOf(cut)

urlPathname(url) == UrlOf(SubSeq(url, 1, IndexOfAny(url, {"?", "#"}, 1) - 1))

\* ------------------------------------------------------ file headers

\* The MIME map, keyed by extension
MIME ==
    {<<<<"h", "t", "m", "l">>, "text/html; charset=utf-8">>,
     <<<<"h", "t", "m">>, "text/html; charset=utf-8">>,
     <<<<"c", "s", "s">>, "text/css; charset=utf-8">>,
     <<<<"j", "s">>, "application/javascript; charset=utf-8">>,
     <<<<"m", "j", "s">>, "application/javascript; charset=utf-8">>,
     <<<<"j", "s", "o", "n">>, "application/json; charset=utf-8">>,
     <<<<"t", "x", "t">>, "text/plain; charset=utf-8">>,
     <<<<"x", "m", "l">>, "application/xml; charset=utf-8">>,
     <<<<"s", "v", "g">>, "image/svg+xml">>,
     <<<<"p", "n", "g">>, "image/png">>,
     <<<<"j", "p", "g">>, "image/jpeg">>,
     <<<<"j", "p", "e", "g">>, "image/jpeg">>,
     <<<<"g", "i", "f">>, "image/gif">>,
     <<<<"w", "e", "b", "p">>, "image/webp">>,
     <<<<"i", "c", "o">>, "image/x-icon">>,
     <<<<"p", "d", "f">>, "application/pdf">>,
     <<<<"m", "p", "4">>, "video/mp4">>,
     <<<<"w", "e", "b", "m">>, "video/webm">>,
     <<<<"m", "p", "3">>, "audio/mpeg">>,
     <<<<"w", "a", "v">>, "audio/wav">>,
     <<<<"w", "a", "s", "m">>, "application/wasm">>}

MimeGet(ext) ==
    IF \E m \in MIME : m[1] = ext
    THEN (CHOOSE m \in MIME : m[1] = ext)[2]
    ELSE "application/octet-stream"

\* String.prototype.slice(1)
slice1(s) == SubSeq(s, 2, Len(s))

contentTypeFor(filePath) == MimeGet(toLowerCase(slice1(pathExtname(filePath))))

\* the ETag were size and mtime written one after the other
etagFromStatsUnseparated(st) ==
    <<"W", "/", "\"">> \o toString16(st.size) \o toString16(st.mtimeMs) \o <<"\"">>

\* Weak ETag based on size-mtime
etagFromStats(st) ==
    <<"W", "/", "\"">> \o toString16(st.size) \o <<"-">>
        \o toString16(st.mtimeMs) \o <<"\"">>

\* An HTTP date, to the second: what Date.prototype.toUTCString prints
HttpDate(seconds) == <<"date", seconds>>

\* new Date(ms).toUTCString(): the milliseconds are dropped
toUTCString(ms) == HttpDate(ms \div 1000)

\* A header value that is no date
NotADate == <<"not-a-date">>

\* new Date(text).getTime(): the instant in ms; NaN (finite = FALSE) for
\* text that is no date
dateGetTime(text) ==
    IF text # <<>> /\ text[1] = "date"
    THEN [finite |-> TRUE, val |-> text[2] * 1000]
    ELSE [finite |-> FALSE, val |-> 0]

\* String.prototype.trim, for spaces
RECURSIVE trim(_)
trim(s) ==
    IF s # <<>> /\ Head(s) = " " THEN trim(Tail(s))
    ELSE IF s # <<>> /\ s[Len(s)] = " " THEN trim(SubSeq(s, 1, Len(s) - 1))
    ELSE s

RECURSIVE DecimalValue(_, _)
DecimalValue(s, acc) ==
    IF s = <<>> THEN acc
    ELSE DecimalValue(Tail(s), 10 * acc + DigitVal(Head(s)))

\* Number were text that is no number read as 0
NumberOrZero(t) ==
    IF \A i \in 1..Len(t) : IsDigit(t[i])
    THEN [finite |-> TRUE, val |-> DecimalValue(t, 0)]
    ELSE [finite |-> TRUE, val |-> 0]

\* Number(text) for the text the model's Range headers hold: surrounding
\* spaces are trimmed, the empty text is 0, decimal digits give their value,
\* text with any other character is NaN (finite = FALSE).  Signs, fractions,
\* exponents and radix prefixes are not in the model's headers.
NumberOfTrimmed(t) ==
    IF \A i \in 1..Len(t) : IsDigit(t[i])
    THEN [finite |-> TRUE, val |-> DecimalValue(t, 0)]
    ELSE [finite |-> FALSE, val |-> 0]

Number(text) == NumberOfTrimmed(trim(text))

Max(a, b) == IF a >= b THEN a ELSE b

Min(a, b) == IF a <= b THEN a ELSE b

\* ------------------------------------------------- the response (res)

NoHeaders == [h \in {} |-> 0]

\* A response nothing was written to: status 0 stands for "no head sent"
NoRes == [status |-> 0, headers |-> NoHeaders, body |-> <<>>, ended |-> FALSE]

headersSent(res) == res.status # 0

\* res.writeHead(code, headers); it throws once a head was sent, which the
\* callers below test with headersSent before they call it.
writeHead(res, code, headers) == [res EXCEPT !.status = code, !.headers = headers]

\* res.end were node to send the body in answer to HEAD as well
resEndAnyMethod(res, method, chunks) ==
    [res EXCEPT !.ended = TRUE,
                !.body = IF res.status = 304 THEN @ ELSE @ \o chunks]

\* res.end(chunks): node sends no body bytes in answer to HEAD, nor with 304
resEnd(res, method, chunks) ==
    [res EXCEPT !.ended = TRUE,
                !.body = IF method = "HEAD" \/ res.status = 304 THEN @ ELSE @ \o chunks]

\* Buffer.byteLength(body)
byteLength(chunk) == <<"byteLength", chunk>>

\* sendError; threw = TRUE when a head was sent before (ERR_HTTP_HEADERS_SENT)
sendErrorBody(res, method, code, body) ==
    IF headersSent(res) THEN [res |-> res, threw |-> TRUE]
    ELSE [res |-> resEnd(writeHead(res, code,
                      ("Content-Type" :> "text/html; charset=utf-8")
                      @@ ("Content-Length" :> byteLength(body))),
                      method, <<body>>),
          threw |-> FALSE]

sendError(res, method, code, msg) ==
    sendErrorBody(res, method, code, [kind |-> "error", code |-> code, msg |-> msg])

\* The catch of main around handler(req, res): sendError(500), whose own
\* exception is swallowed.
mainCatch(res, method) == sendError(res, method, 500, "Internal Server Error").res

\* ------------------------------------------------------- serveFile

\* The Range evaluation of serveFile for a header that matches /^bytes=/:
\* the first comma-separated spec, split at "-".
InvalidRange(size) == [valid |-> FALSE, start |-> 0, end |-> size - 1]

Span(start, end) == [valid |-> start <= end, start |-> start, end |-> end]

\* the suffix form were its start not clamped at 0
suffixRangeUnclamped(suffix, size) ==
    IF suffix.finite /\ suffix.val > 0
    THEN Span(size - suffix.val, size - 1)
    ELSE InvalidRange(size)

\* suffix bytes: last N bytes
suffixRange(suffix, size) ==
    IF suffix.finite /\ suffix.val > 0
    THEN Span(Max(0, size - suffix.val), size - 1)
    ELSE InvalidRange(size)

\* the bounded form were the end of the range ignored
boundedRangeToEnd(sNum, eNum, size) ==
    IF sNum.finite /\ eNum.finite /\ sNum.val <= eNum.val /\ sNum.val < size
    THEN Span(Max(0, sNum.val), size - 1)
    ELSE InvalidRange(size)

boundedRange(sNum, eNum, size) ==
    IF sNum.finite /\ eNum.finite /\ sNum.val <= eNum.val /\ sNum.val < size
    THEN Span(Max(0, sNum.val), Min(eNum.val, size - 1))
    ELSE InvalidRange(size)

\* [s, e] = spec.split('-')
rangeOfFields(s, e, size) ==
    IF s = <<>> THEN suffixRange(Number(e), size)
    ELSE boundedRange(Number(s),
             IF e = <<>> THEN [finite |-> TRUE, val |-> size - 1] ELSE Number(e),
             size)

rangeOfParts(parts, size) == rangeOfFields(parts[1], parts[2], size)

rangeOfSpec(spec, size) ==
    IF ~includes(spec, "-") THEN InvalidRange(size)
    ELSE rangeOfParts(SplitOn(spec, {"-"}), size)

parseRange(range, size) ==
    rangeOfSpec(trim(SplitOn(SubSeq(range, 7, Len(range)), {","})[1]), size)

\* the If-Modified-Since test were the comparison strict
sinceAfter(since, mtimeMs) == since.finite /\ since.val > mtimeMs

\* The conditional-request test of serveFile
sinceAtLeast(since, mtimeMs) == since.finite /\ since.val >= mtimeMs

\* the conditional test were If-None-Match not looked at
notModifiedSinceOnly(req, st) ==
    req.headers.ims # <<>> /\ sinceAtLeast(dateGetTime(req.headers.ims), st.mtimeMs)

notModified(req, st) ==
    \/ req.headers.inm # <<>> /\ req.headers.inm = etagFromStats(st)
    \/ req.headers.ims # <<>> /\ sinceAtLeast(dateGetTime(req.headers.ims), st.mtimeMs)

\* fs.createReadStream(filePath, {start, end}) throws synchronously unless
\* 0 <= start <= end
readStreamThrows(start, end) == ~(0 <= start /\ 0 <= end /\ start <= end)

\* the first headers of serveFile were Content-Length among them
fileHeadersWithLength(filePath, st, opts) ==
    ("Content-Type" :> contentTypeFor(filePath))
    @@ ("Last-Modified" :> toUTCString(st.mtimeMs))
    @@ ("ETag" :> etagFromStats(st))
    @@ ("Accept-Ranges" :> "bytes")
    @@ ("Cache-Control" :>
            IF opts.cacheSeconds > 0
            THEN <<"public, max-age=", opts.cacheSeconds>>
            ELSE <<"no-cache">>)
    @@ ("Content-Length" :> st.size)

\* The headers serveFile builds first
fileHeaders(filePath, st, opts) ==
    ("Content-Type" :> contentTypeFor(filePath))
    @@ ("Last-Modified" :> toUTCString(st.mtimeMs))
    @@ ("ETag" :> etagFromStats(st))
    @@ ("Accept-Ranges" :> "bytes")
    @@ ("Cache-Control" :>
            IF opts.cacheSeconds > 0
            THEN <<"public, max-age=", opts.cacheSeconds>>
            ELSE <<"no-cache">>)

\* range && /^bytes=/.test(range)
isRanged(range) == range # <<>> /\ startsWith(range, <<"b", "y", "t", "e", "s", "=">>)

\* start, end and statusCode after the Range evaluation
rangeOf(range, size) ==
    IF isRanged(range) THEN parseRange(range, size) @@ [ranged |-> TRUE]
    ELSE [valid |-> TRUE, start |-> 0, end |-> size - 1, ranged |-> FALSE]

\* the head of a 200 or 206 were Content-Length the difference of end and
\* start
headOfEndExclusive(res, headers, r, size) ==
    writeHead(res, IF r.ranged THEN 206 ELSE 200,
        headers
        @@ (IF r.ranged
            THEN "Content-Range" :> <<"bytes", r.start, r.end, size>>
            ELSE NoHeaders)
        @@ ("Content-Length" :> r.end - r.start))

\* The head of a 200 or 206
headOf(res, headers, r, size) ==
    writeHead(res, IF r.ranged THEN 206 ELSE 200,
        headers
        @@ (IF r.ranged
            THEN "Content-Range" :> <<"bytes", r.start, r.end, size>>
            ELSE NoHeaders)
        @@ ("Content-Length" :> r.end - r.start + 1))

\* What serveFile leaves: the response, whether the body is still to be
\* piped from the file (stream), whether serveFile rejected after the head
\* was written (threw), and the span given to the read stream.
Served(res, stream, threw, r) ==
    [res |-> res, stream |-> stream, threw |-> threw, start |-> r.start, end |-> r.end]

\* serveFile were the Range header evaluated before the validators
serveFileRangeFirst(req, res, st, headers, r) ==
    IF ~r.valid
    THEN Served(resEnd(writeHead(res, 416,
                    "Content-Range" :> <<"bytes", "*", st.size>>), req.method, <<>>),
                FALSE, FALSE, r)
    ELSE IF notModified(req, st)
    THEN Served(resEnd(writeHead(res, 304, headers), req.method, <<>>), FALSE, FALSE, r)
    ELSE IF req.method = "HEAD"
    THEN Served(resEnd(headOf(res, headers, r, st.size), req.method, <<>>),
                FALSE, FALSE, r)
    ELSE IF readStreamThrows(r.start, r.end)
    THEN Served(headOf(res, headers, r, st.size), FALSE, TRUE, r)
    ELSE Served(headOf(res, headers, r, st.size), TRUE, FALSE, r)

serveFileWith(req, res, st, headers, r) ==
    IF notModified(req, st)
    THEN Served(resEnd(writeHead(res, 304, headers), req.method, <<>>), FALSE, FALSE, r)
    ELSE IF ~r.valid
    THEN Served(resEnd(writeHead(res, 416,
                    "Content-Range" :> <<"bytes", "*", st.size>>), req.method, <<>>),
                FALSE, FALSE, r)
    ELSE IF req.method = "HEAD"
    THEN Served(resEnd(headOf(res, headers, r, st.size), req.method, <<>>),
                FALSE, FALSE, r)
    ELSE IF readStreamThrows(r.start, r.end)
    THEN Served(headOf(res, headers, r, st.size), FALSE, TRUE, r)
    ELSE Served(headOf(res, headers, r, st.size), TRUE, FALSE, r)

\* serveFile up to the point where the read stream is created
serveFile(req, res, filePath, st, opts) ==
    serveFileWith(req, res, st, fileHeaders(filePath, st, opts),
                  rangeOf(req.headers.range, st.size))

\* ------------------------------------------------------ the filesystem

\* The directories and files the model knows; every other path is absent.
Parent == <<"/", "p">>

Root == <<"/", "p", "/", "r", "o", "o", "t">>

RootIndex == <<"/", "p", "/", "r", "o", "o", "t", "/", "i", "n", "d", "e", "x", ".", "h", "t", "m", "l">>

FileA == <<"/", "p", "/", "r", "o", "o", "t", "/", "a", ".", "t", "x", "t">>

SubDir == <<"/", "p", "/", "r", "o", "o", "t", "/", "s", "u", "b">>

SubIndex == <<"/", "p", "/", "r", "o", "o", "t", "/", "s", "u", "b", "/", "i", "n", "d", "e", "x", ".", "h", "t", "m", "l">>

OutsideDir == <<"/", "p", "/", "o", "u", "t", "s", "i", "d", "e">>

OutsideFile == <<"/", "p", "/", "o", "u", "t", "s", "i", "d", "e", "/", "a", ".", "t", "x", "t">>

EvilDir == <<"/", "p", "/", "r", "o", "o", "t", "-", "e", "v", "i", "l">>

EvilFile == <<"/", "p", "/", "r", "o", "o", "t", "-", "e", "v", "i", "l", "/", "a", ".", "t", "x", "t">>

\* What fs.stat reports of an entry: isDirectory() is kind = "dir"
NoEntry == [kind |-> "none", size |-> 0, mtimeMs |-> 0]

Dir == [kind |-> "dir", size |-> 0, mtimeMs |-> 0]

File(size, mtimeMs) == [kind |-> "file", size |-> size, mtimeMs |-> mtimeMs]

\* The directory a path lies in
ParentAt(p, k) == IF k <= 1 THEN <<"/">> ELSE SubSeq(p, 1, k - 1)

parentOf(p) == ParentAt(p, LastIndexOf(p, "/", Len(p)))

\* The last segment of a path
baseName(p) == SubSeq(p, LastIndexOf(p, "/", Len(p)) + 1, Len(p))

\* The path names an entry, below directories only
RECURSIVE Present(_, _)
Present(f, p) ==
    \/ p = <<"/">>
    \/ /\ p \in DOMAIN f
       /\ f[p].kind # "none"
       /\ Present(f, parentOf(p))
       /\ (parentOf(p) = <<"/">> \/ f[parentOf(p)].kind = "dir")

\* fs.promises.stat: ok = FALSE when it rejects
stat(f, p) ==
    IF Present(f, p) /\ p # <<"/">> THEN [ok |-> TRUE, st |-> f[p]]
    ELSE [ok |-> FALSE, st |-> NoEntry]

\* fileExists: access(p, F_OK) resolves
fileExists(f, p) == Present(f, p)

\* fs.promises.readdir(dirPath, {withFileTypes: true}): name and isDirectory()
readdir(f, dirPath) ==
    {<<baseName(p), f[p].kind = "dir">> :
        p \in {q \in DOMAIN f : parentOf(q) = dirPath /\ f[q].kind # "none"}}

\* The entries that never change
FixedFs ==
    (Parent :> Dir) @@ (Root :> Dir)
    @@ (OutsideDir :> Dir) @@ (OutsideFile :> File(1, 1000))
    @@ (EvilDir :> Dir) @@ (EvilFile :> File(1, 1000))

\* ----------------------------------------------------------- bounds

\* File sizes are 0..MaxSize
MaxSize == 3

\* The numbers in a Range header are 0..MaxNum
MaxNum == 4

\* The segments of a request target
MaxSegments == 3

\* The changes other processes make to the served tree
MaxFsChanges == 1

\* The requests of one client, the first and its repeats
MaxRequests == 2

\* ----------------------------------------------------------- state

VARIABLES
    args,           \* parseArgs(process.argv): listing, spa, cacheSeconds
    rootResolved,   \* path.resolve(root) of handlerFactory
    opts,           \* {listing, spa, cacheSeconds}
    fs,             \* the filesystem: path -> entry
    fsChanges,      \* how often other processes changed it
    pc,             \* where the handler of the current request is
    req,            \* the request: method, url, headers
    reqPath,        \* url.pathname
    absPath,        \* safeJoin(rootResolved, reqPath)
    filePath,       \* the file given to serveFile
    st,             \* the stat given to serveFile
    span,           \* start and end given to createReadStream
    res,            \* the response
    rejected,       \* the handler's promise rejected: main's catch ran
    other,          \* the locals of a second handler call, suspended at an await
    prev,           \* the client's previous exchange
    served          \* the requests received

vars == <<args, rootResolved, opts, fs, fsChanges, pc, req, reqPath, absPath,
          filePath, st, span, res, rejected, other, prev, served>>

NoHeader == <<>>

Request(method, url, inm, ims, range) ==
    [method |-> method, url |-> url,
     headers |-> [inm |-> inm, ims |-> ims, range |-> range]]

NoReq == Request("GET", <<"/">>, NoHeader, NoHeader, NoHeader)

NoSpan == [start |-> 0, end |-> 0]

NoPrev == [some |-> FALSE, req |-> NoReq, res |-> NoRes,
           filePath |-> <<>>, st |-> NoEntry, reqPath |-> <<>>, absPath |-> NoPath]

\* The locals of a call of the handler that has not begun
NoCall == [pc |-> "idle", req |-> NoReq, reqPath |-> <<>>, absPath |-> NoPath,
           filePath |-> <<>>, st |-> NoEntry, span |-> NoSpan, res |-> NoRes,
           rejected |-> FALSE]

\* Number(text) of the --cache argument: a number, or NaN
Num(n) == [finite |-> TRUE, val |-> n]

NaN == [finite |-> FALSE, val |-> 0]

\* args of parseArgs
Args(listing, spa, cacheSeconds) ==
    [listing |-> listing, spa |-> spa, cacheSeconds |-> cacheSeconds]

\* opts of main were cacheSeconds taken as parsed
OptionsAsParsed(a) ==
    [listing |-> a.listing, spa |-> a.spa, cacheSeconds |-> a.cacheSeconds.val]

\* opts of main: cacheSeconds is 0 unless it is finite, and clamped at 0
Options(a) ==
    [listing |-> a.listing, spa |-> a.spa,
     cacheSeconds |-> IF a.cacheSeconds.finite THEN Max(0, a.cacheSeconds.val) ELSE 0]

InitWith(roots, arguments, filesystems) ==
    /\ args \in arguments
    /\ rootResolved \in roots
    /\ opts = Options(args)
    /\ fs \in filesystems
    /\ fsChanges = 0
    /\ pc = "idle"
    /\ req = NoReq
    /\ reqPath = <<>>
    /\ absPath = NoPath
    /\ filePath = <<>>
    /\ st = NoEntry
    /\ span = NoSpan
    /\ res = NoRes
    /\ rejected = FALSE
    /\ other = NoCall
    /\ prev = NoPrev
    /\ served = 0

\* ------------------------------------------------------- the handler

\* The handler up to its first await: the request target is parsed and
\* joined to the root.  A target new URL rejects makes the handler reject,
\* which main answers with 500; a path safeJoin refuses is answered 400.
BeginAt(r, p, a) ==
    IF p = InvalidUrl
    THEN /\ reqPath' = <<>>
         /\ absPath' = NoPath
         /\ res' = mainCatch(NoRes, r.method)
         /\ rejected' = TRUE
         /\ pc' = "done"
    ELSE IF a = NoPath
    THEN /\ reqPath' = p
         /\ absPath' = NoPath
         /\ res' = sendError(NoRes, r.method, 400, "Bad Request").res
         /\ rejected' = FALSE
         /\ pc' = "done"
    ELSE /\ reqPath' = p
         /\ absPath' = a
         /\ res' = NoRes
         /\ rejected' = FALSE
         /\ pc' = "stat"

BeginPath(r, p) == BeginAt(r, p, IF p = InvalidUrl THEN NoPath ELSE safeJoin(rootResolved, p))

Begin(r) ==
    /\ req' = r
    /\ BeginPath(r, urlPathname(r.url))
    /\ filePath' = <<>>
    /\ st' = NoEntry
    /\ span' = NoSpan
    /\ UNCHANGED <<args, rootResolved, opts, fs, fsChanges, other>>

\* A client's first request
Receive(r) ==
    /\ pc = "idle"
    /\ Begin(r)
    /\ served' = served + 1
    /\ UNCHANGED prev

\* What a client sends after a response: the same request with the other
\* method, or with a validator the response carried.
FollowUps(r, rs) ==
    {[r EXCEPT !.method = IF r.method = "GET" THEN "HEAD" ELSE "GET"]}
    \cup (IF "ETag" \in DOMAIN rs.headers
          THEN {[r EXCEPT !.headers.inm = rs.headers["ETag"]]} ELSE {})
    \cup (IF "Last-Modified" \in DOMAIN rs.headers
          THEN {[r EXCEPT !.headers.ims = rs.headers["Last-Modified"]]} ELSE {})

\* The exchange that ends, as the client remembers it
Exchange == [some |-> TRUE, req |-> req, res |-> res, filePath |-> filePath,
             st |-> st, reqPath |-> reqPath, absPath |-> absPath]

Repeat(r) ==
    /\ pc = "done"
    /\ served < MaxRequests
    /\ r \in FollowUps(req, res)
    /\ prev' = Exchange
    /\ Begin(r)
    /\ served' = served + 1

\* The hrefs of the listing a response carries
Links(rs) ==
    IF rs.body # <<>> /\ rs.body[1].kind = "listing"
    THEN {it.href : it \in rs.body[1].items}
    ELSE {}

\* The client follows a link of the listing: a GET of its href
Follow(href) ==
    /\ pc = "done"
    /\ served < MaxRequests
    /\ href \in Links(res)
    /\ prev' = Exchange
    /\ Begin(Request("GET", href, NoHeader, NoHeader, NoHeader))
    /\ served' = served + 1

\* What becomes of the response when serveFile rejects, by call site: the
\* try/catch around the plain file, the uncaught call for a directory's
\* index.html, and the empty catch of the SPA fallback followed by
\* sendError(404).
orMainCatch(e, rs, method) == IF e.threw THEN mainCatch(rs, method) ELSE e.res

afterThrow(site, rs, method) ==
    IF site = "file"
    THEN IF ~headersSent(rs)
         THEN sendError(rs, method, 500, "Internal Server Error").res ELSE rs
    ELSE IF site = "dir" THEN mainCatch(rs, method)
    ELSE orMainCatch(sendError(rs, method, 404, "Not Found"), rs, method)

\* Whether the handler's promise rejects when serveFile rejected: not in the
\* try/catch around the plain file, always for a directory's index.html,
\* and in the SPA fallback when the sendError(404) that follows throws.
rejects(site, rs, method) ==
    \/ site = "dir"
    \/ site = "spa" /\ sendError(rs, method, 404, "Not Found").threw

\* await serveFile(req, res, path, stats, opts) at a call site
Settle(site, path, stats, sv) ==
    /\ filePath' = path
    /\ st' = stats
    /\ span' = [start |-> sv.start, end |-> sv.end]
    /\ res' = IF sv.threw THEN afterThrow(site, sv.res, req.method) ELSE sv.res
    /\ rejected' = (sv.threw /\ rejects(site, sv.res, req.method))
    /\ pc' = IF sv.stream THEN "stream" ELSE "done"

Serve(site, path, stats) ==
    Settle(site, path, stats, serveFile(req, res, path, stats, opts))

Respond(rs) ==
    /\ res' = rs
    /\ pc' = "done"
    /\ UNCHANGED <<filePath, st, span, rejected>>

\* An await of the handler rejects outside any try: the handler's promise
\* rejects and main's catch answers
Reject ==
    /\ res' = mainCatch(res, req.method)
    /\ rejected' = TRUE
    /\ pc' = "done"
    /\ UNCHANGED <<filePath, st, span>>

Goto(label) ==
    /\ pc' = label
    /\ UNCHANGED <<filePath, st, span, res, rejected>>

Frame == UNCHANGED <<args, rootResolved, opts, fs, fsChanges, req, reqPath, absPath,
                     other, prev, served>>

\* the handler were there no SPA fallback
AfterStatNoSpa(r) ==
    IF ~r.ok THEN Respond(sendError(res, req.method, 404, "Not Found").res)
    ELSE IF r.st.kind = "dir" THEN Goto("dirExists")
    ELSE Serve("file", absPath, r.st)

\* st = await stat(absPath)
AfterStat(r) ==
    IF ~r.ok
    THEN IF opts.spa THEN Goto("spaExists")
         ELSE Respond(sendError(res, req.method, 404, "Not Found").res)
    ELSE IF r.st.kind = "dir" THEN Goto("dirExists")
    ELSE Serve("file", absPath, r.st)

StatTarget ==
    /\ pc = "stat"
    /\ AfterStat(stat(fs, absPath))
    /\ Frame

\* SPA mode: await fileExists(indexPath) of the root
SpaExists ==
    /\ pc = "spaExists"
    /\ IF fileExists(fs, pathJoin(rootResolved, <<"i", "n", "d", "e", "x", ".", "h", "t", "m", "l">>))
       THEN Goto("spaStat")
       ELSE Respond(sendError(res, req.method, 404, "Not Found").res)
    /\ Frame

\* SPA mode: ist = await stat(indexPath), then serveFile
AfterSpaStat(indexPath, r) ==
    IF r.ok THEN Serve("spa", indexPath, r.st)
    ELSE Respond(sendError(res, req.method, 404, "Not Found").res)

SpaStatAt(indexPath) == AfterSpaStat(indexPath, stat(fs, indexPath))

SpaStat ==
    /\ pc = "spaStat"
    /\ SpaStatAt(pathJoin(rootResolved, <<"i", "n", "d", "e", "x", ".", "h", "t", "m", "l">>))
    /\ Frame

\* the directory branch were the listing option consulted before index.html
DirExistsListingFirst ==
    /\ pc = "dirExists"
    /\ IF opts.listing THEN Goto("list")
       ELSE IF fileExists(fs, pathJoin(absPath, <<"i", "n", "d", "e", "x", ".", "h", "t", "m", "l">>)) THEN Goto("dirStat")
       ELSE Respond(sendError(res, req.method, 403, "Directory listing denied").res)
    /\ Frame

\* A directory: await fileExists(indexPath), then the listing decision
DirExists ==
    /\ pc = "dirExists"
    /\ IF fileExists(fs, pathJoin(absPath, <<"i", "n", "d", "e", "x", ".", "h", "t", "m", "l">>)) THEN Goto("dirStat")
       ELSE IF ~opts.listing
       THEN Respond(sendError(res, req.method, 403, "Directory listing denied").res)
       ELSE Goto("list")
    /\ Frame

\* A directory with index.html: ist = await stat(indexPath), outside any try
AfterDirStat(indexPath, r) ==
    IF r.ok THEN Serve("dir", indexPath, r.st)
    ELSE Reject

DirStatAt(indexPath) == AfterDirStat(indexPath, stat(fs, indexPath))

DirStat ==
    /\ pc = "dirStat"
    /\ DirStatAt(pathJoin(absPath, <<"i", "n", "d", "e", "x", ".", "h", "t", "m", "l">>))
    /\ Frame

\* listDirectory(absPath, reqPath) and the 200 it is sent with; readdir
\* rejecting, or decodeURI(reqPath) throwing URIError, makes it the 500.
listingHead(body) ==
    writeHead(res, 200,
        ("Content-Type" :> "text/html; charset=utf-8")
        @@ ("Content-Length" :> byteLength(body))
        @@ ("Cache-Control" :> <<"no-cache">>))

sendListing(body) == Respond(resEnd(listingHead(body), req.method, <<body>>))

\* escapeHtml were the apostrophe left as it is
escapeHtmlCharKeepsApostrophe(c) ==
    CASE c = "&" -> <<"&", "a", "m", "p", ";">>
      [] c = "<" -> <<"&", "l", "t", ";">>
      [] c = ">" -> <<"&", "g", "t", ";">>
      [] c = "\"" -> <<"&", "q", "u", "o", "t", ";">>
      [] OTHER -> <<c>>

\* escapeHtml: each of & < > " ' becomes its entity
escapeHtmlChar(c) ==
    CASE c = "&" -> <<"&", "a", "m", "p", ";">>
      [] c = "<" -> <<"&", "l", "t", ";">>
      [] c = ">" -> <<"&", "g", "t", ";">>
      [] c = "\"" -> <<"&", "q", "u", "o", "t", ";">>
      [] c = "'" -> <<"&", "#", "3", "9", ";">>
      [] OTHER -> <<c>>

RECURSIVE escapeHtml(_)
escapeHtml(s) ==
    IF s = <<>> THEN <<>> ELSE escapeHtmlChar(Head(s)) \o escapeHtml(Tail(s))

\* it.name + (it.isDirectory() ? '/' : '')
itemName(it) == it[1] \o (IF it[2] THEN <<"/">> ELSE <<>>)

\* One <li> of the page: the href of its link and the text it shows
listItem(slashed, name) ==
    [href |-> slashed \o encodeURI(name), text |-> escapeHtml(name)]

\* The page of listDirectory: the text of its title and heading, whether it
\* links to "..", and its items
listingPage(slashed, items) ==
    [kind |-> "listing",
     title |-> escapeHtml(decodeURI(slashed).str),
     up |-> slashed # <<"/">>,
     items |-> {listItem(slashed, itemName(it)) : it \in items}]

listDirectory(dirPath, slashed) ==
    IF stat(fs, dirPath).ok /\ fs[dirPath].kind = "dir" /\ decodeURI(slashed).ok
    THEN sendListing(listingPage(slashed, readdir(fs, dirPath)))
    ELSE Respond(sendError(res, req.method, 500, "Failed to read directory").res)

List ==
    /\ pc = "list"
    /\ listDirectory(absPath,
           IF endsWith(reqPath, <<"/">>) THEN reqPath ELSE reqPath \o <<"/">>)
    /\ Frame

\* stream.pipe(res): the bytes start..end the file holds when it is read,
\* then the end of the response; the stream's error handler ends it with a
\* message instead.
pipe(last) ==
    Respond(resEnd(res, req.method,
        IF span.start <= last
        THEN <<[kind |-> "file", path |-> filePath, start |-> span.start, end |-> last]>>
        ELSE <<>>))

AfterOpen(r) ==
    IF r.ok /\ r.st.kind = "file" THEN pipe(Min(span.end, r.st.size - 1))
    ELSE Respond(resEnd(res, req.method,
             <<[kind |-> "text", text |-> "Internal Server Error"]>>))

Stream ==
    /\ pc = "stream"
    /\ AfterOpen(stat(fs, filePath))
    /\ Frame

\* Another process changes an entry of the served tree
FsChange(p, e) ==
    /\ fsChanges < MaxFsChanges
    /\ p \in DOMAIN fs
    /\ fs[p] # e
    /\ fs' = [fs EXCEPT ![p] = e]
    /\ fsChanges' = fsChanges + 1
    /\ UNCHANGED <<args, rootResolved, opts, pc, req, reqPath, absPath, filePath,
                   st, span, res, rejected, other, prev, served>>

\* ------------------------------------------------------------ inputs

Methods == {"GET", "HEAD"}

MTimes == {1000, 1500}

\* --cache arguments of the command line
CacheArgs == {Num(-1), Num(0), Num(60), NaN}

\* The served tree with the three entries that vary
Tree(index, a, sub, subIndex) ==
    FixedFs @@ (RootIndex :> index) @@ (FileA :> a)
    @@ (SubDir :> sub) @@ (SubIndex :> subIndex)

\* ---- the handler as a whole: a few targets, headers and trees

HandlerUrls ==
    {<<"/">>, <<"/", "a", ".", "t", "x", "t">>, <<"/", "s", "u", "b">>, <<"/", "s", "u", "b", "/">>, <<"/", "m", "i", "s", "s", "i", "n", "g">>,
     <<"/", "%", "2", "e", "%", "2", "e", "%", "2", "f", "o", "u", "t", "s", "i", "d", "e">>, <<"/", "/", "%", "0", "0">>}

HandlerRequests ==
    {Request(m, u, inm, ims, range) :
        m \in Methods, u \in HandlerUrls,
        inm \in {NoHeader, etagFromStats(File(2, 1500))},
        ims \in {NoHeader},
        range \in {NoHeader, <<"b", "y", "t", "e", "s", "=", "0", "-", "0">>, <<"b", "y", "t", "e", "s", "=", "9", "-">>}}

HandlerTrees ==
    {Tree(index, File(3, 1000), sub, subIndex) :
        index \in {NoEntry, File(2, 1500), File(0, 1000)},
        sub \in {NoEntry, Dir},
        subIndex \in {NoEntry, File(2, 1500)}}

HandlerChanges ==
    ({RootIndex, FileA, SubIndex} \X {NoEntry}) \cup {<<FileA, File(1, 2000)>>}

Init ==
    /\ InitWith({Root},
                {Args(l, s, Num(0)) : l \in BOOLEAN, s \in BOOLEAN},
                HandlerTrees)

Next ==
    \/ \E r \in HandlerRequests : Receive(r)
    \/ \E r \in FollowUps(req, res) : Repeat(r)
    \/ StatTarget
    \/ SpaExists
    \/ SpaStat
    \/ DirExists
    \/ DirStat
    \/ List
    \/ Stream
    \/ \E c \in HandlerChanges : FsChange(c[1], c[2])

Spec == Init /\ [][Next]_vars

\* ---- serveFile: one file of every size, every Range and validator

\* The text of a bound in a Range header: empty, a number, or no number
RangeFields == {<<>>, <<"z">>} \cup {toString10(n) : n \in 0..MaxNum}

RangeHeaders ==
    {NoHeader, <<"b", "y", "t", "e", "s", "=", "2">>, <<"b", "y", "t", "e", "s", "=">>, <<"i", "t", "e", "m", "s", "=", "0", "-", "1">>, <<"b", "y", "t", "e", "s", "=", "0", "-", "0", ",", "1", "-", "2">>,
     <<"b", "y", "t", "e", "s", "=", " ", "1", "-", "2", " ">>, <<"b", "y", "t", "e", "s", "=", "1", "-", "2", "-", "0">>}
    \cup {<<"b", "y", "t", "e", "s", "=">> \o s \o <<"-">> \o e : s \in RangeFields, e \in RangeFields}

FileRequests ==
    {Request(m, <<"/", "a", ".", "t", "x", "t">>, inm, ims, range) :
        m \in Methods,
        inm \in {NoHeader, etagFromStats(File(MaxSize, 1500)),
                 Tail(Tail(etagFromStats(File(MaxSize, 1500))))},
        ims \in {NoHeader, NotADate, HttpDate(1)},
        range \in RangeHeaders}

FileTrees ==
    {Tree(NoEntry, File(size, mtimeMs), NoEntry, NoEntry) :
        size \in 0..MaxSize, mtimeMs \in MTimes}

FileChanges == {<<FileA, File(1, 2000)>>}

InitFile ==
    /\ InitWith({Root},
                {Args(TRUE, FALSE, Num(0))},
                FileTrees)

NextFile ==
    \/ \E r \in FileRequests : Receive(r)
    \/ \E r \in FollowUps(req, res) : Repeat(r)
    \/ StatTarget
    \/ Stream
    \/ \E c \in FileChanges : FsChange(c[1], c[2])

SpecFile == InitFile /\ [][NextFile]_vars

\* ---- safeJoin: request targets built from traversal material

Separators == {<<"/">>, <<"%", "2", "f">>, <<"%", "2", "5", "2", "f">>, <<"\\">>}

SegmentNames ==
    {<<".", ".">>, <<"%", "2", "e", "%", "2", "e">>, <<"%", "2", "5", "2", "e", "%", "2", "5", "2", "e">>, <<>>, <<"r", "o", "o", "t", "-", "e", "v", "i", "l">>, <<"a", ".", "t", "x", "t">>,
     <<"%", "0", "0">>}

\* "/" name sep name sep name ...
RECURSIVE TargetOf(_, _)
TargetOf(names, sep) ==
    IF Len(names) = 1 THEN <<"/">> \o names[1]
    ELSE TargetOf(SubSeq(names, 1, Len(names) - 1), sep) \o sep \o names[Len(names)]

ResolveUrls ==
    {TargetOf(names, sep) :
        names \in UNION {[1..n -> SegmentNames] : n \in 1..MaxSegments},
        sep \in Separators}

ResolveRequests == {Request("GET", u, NoHeader, NoHeader, NoHeader) : u \in ResolveUrls}

InitResolve ==
    /\ InitWith({Root},
                {Args(TRUE, FALSE, Num(0))},
                {Tree(index, File(3, 1000), Dir, File(2, 1500)) :
                    index \in {NoEntry, File(2, 1500)}})

NextResolve ==
    \/ \E r \in ResolveRequests : Receive(r)
    \/ StatTarget
    \/ DirExists
    \/ DirStat
    \/ List
    \/ Stream

SpecResolve == InitResolve /\ [][NextResolve]_vars

\* ---- targets that do not decode, hold a NUL, or need normalising

PathUrls ==
    {<<"/">>, <<"/", "a", ".", "t", "x", "t">>, <<"/", "%">>, <<"/", "a", ".", "t", "x", "t", "%">>, <<"/", "s", "u", "b", "/", "%", "z", "z">>,
     <<"/", "%", "0", "0", "a", ".", "t", "x", "t">>, <<"/", "a", "%", "0", "0", ".", "t", "x", "t">>, <<"/", "a", ".", "t", "x", "t", "%", "0", "0">>, <<"/", "a", ".", "t", "x", "t", "%", "0", "0", ".", "p", "n", "g">>,
     <<"/", "/", "a", ".", "t", "x", "t">>, <<"/", ".", "/", "a", ".", "t", "x", "t">>, <<"/", "x", "/", ".", ".", "/", "a", ".", "t", "x", "t">>, <<"/", "%", "2", "e", "%", "2", "e", "%", "2", "f", "a", ".", "t", "x", "t">>}

PathRequests ==
    {Request(m, u, inm, NoHeader, range) :
        m \in Methods,
        u \in PathUrls,
        inm \in {NoHeader, etagFromStats(File(3, 1000))},
        range \in {NoHeader, <<"b", "y", "t", "e", "s", "=", "0", "-", "0">>}}

InitPaths ==
    /\ InitWith({Root},
                {Args(l, s, c) : l \in BOOLEAN, s \in BOOLEAN, c \in CacheArgs},
                {Tree(index, File(3, 1000), Dir, NoEntry) :
                    index \in {NoEntry, File(2, 1500)}})

NextPaths ==
    \/ \E r \in PathRequests : Receive(r)
    \/ StatTarget
    \/ SpaExists
    \/ SpaStat
    \/ DirExists
    \/ DirStat
    \/ List
    \/ Stream

SpecPaths == InitPaths /\ [][NextPaths]_vars

\* ---- the listing: entries whose names hold reserved and special characters

\* A directory whose name holds the five characters escapeHtml replaces
OddDir == <<"/", "p", "/", "r", "o", "o", "t", "/", "<", "&", ">", "\"", "'">>

OddNames == {<<"a", "#", "b">>, <<"a", "?", "b">>, <<"a", "%", "b">>, <<"a", "&", "b">>, <<"a", " ", "b">>, <<"%", "4", "1">>, <<"<", "i", ">", "'", "&", "\"", ".", "t", "x", "t">>}

\* The root with those files, the directory and a file in it; an entry "a"
\* is a file, a directory, or not there
ListingTree(a) ==
    [p \in {Root \o <<"/">> \o n : n \in OddNames} |-> File(1, 1000)]
    @@ (OddDir :> Dir) @@ (OddDir \o <<"/", "x", ".", "t", "x", "t">> :> File(1, 1000))
    @@ (Root \o <<"/", "a">> :> a)
    @@ Tree(NoEntry, NoEntry, NoEntry, NoEntry)

ListingUrls == {<<"/">>, <<"/", "<", "&", ">", "\"", "'">>, <<"/", "%", "3", "C", "&", "%", "3", "E", "%", "2", "2", "'", "/">>}

ListingRequests ==
    {Request(m, u, NoHeader, NoHeader, NoHeader) : m \in Methods, u \in ListingUrls}

InitListing ==
    /\ InitWith({Root},
                {Args(TRUE, FALSE, Num(0))},
                {ListingTree(a) : a \in {NoEntry, File(2, 1500), Dir}})

NextListing ==
    \/ \E r \in ListingRequests : Receive(r)
    \/ \E href \in Links(res) : Follow(href)
    \/ StatTarget
    \/ DirExists
    \/ List
    \/ Stream

SpecListing == InitListing /\ [][NextListing]_vars

\* ---- two calls of the handler, interleaved at their awaits

\* The locals of the handler call that is running
Call == [pc |-> pc, req |-> req, reqPath |-> reqPath, absPath |-> absPath,
         filePath |-> filePath, st |-> st, span |-> span, res |-> res,
         rejected |-> rejected]

\* the handler were filePath, st and span kept outside the call, shared by
\* all calls
SwitchSharingFile ==
    /\ other' = Call
    /\ pc' = other.pc
    /\ req' = other.req
    /\ reqPath' = other.reqPath
    /\ absPath' = other.absPath
    /\ res' = other.res
    /\ rejected' = other.rejected
    /\ UNCHANGED <<args, rootResolved, opts, fs, fsChanges, filePath, st, span, prev, served>>

\* At an await the event loop turns to the other call of the handler: the
\* locals of each call are its own
Switch ==
    /\ other' = Call
    /\ pc' = other.pc
    /\ req' = other.req
    /\ reqPath' = other.reqPath
    /\ absPath' = other.absPath
    /\ filePath' = other.filePath
    /\ st' = other.st
    /\ span' = other.span
    /\ res' = other.res
    /\ rejected' = other.rejected
    /\ UNCHANGED <<args, rootResolved, opts, fs, fsChanges, prev, served>>

\* The call has returned and its response is complete: nothing of it is kept
Return ==
    /\ pc = "done"
    /\ pc' = "idle"
    /\ UNCHANGED <<args, rootResolved, opts, fs, fsChanges, req, reqPath, absPath,
                   filePath, st, span, res, rejected, other, prev, served>>

ConcurrentRequests ==
    {Request(m, u, NoHeader, NoHeader, range) :
        m \in Methods, u \in {<<"/">>, <<"/", "a", ".", "t", "x", "t">>, <<"/", "m", "i", "s", "s", "i", "n", "g">>},
        range \in {NoHeader, <<"b", "y", "t", "e", "s", "=", "1", "-", "2">>}}

ConcurrentChanges == {<<FileA, File(1, 2000)>>, <<RootIndex, NoEntry>>}

InitConcurrent ==
    /\ InitWith({Root},
                {Args(TRUE, s, Num(0)) : s \in BOOLEAN},
                {Tree(index, File(3, 1000), NoEntry, NoEntry) :
                    index \in {NoEntry, File(2, 1500)}})

\* Requests arrive while another is handled; the tree changes between
\* requests, when no call is in flight
NextConcurrent ==
    \/ \E r \in ConcurrentRequests : served < MaxRequests /\ Receive(r)
    \/ Switch
    \/ Return
    \/ StatTarget
    \/ SpaExists
    \/ SpaStat
    \/ DirExists
    \/ DirStat
    \/ List
    \/ Stream
    \/ \E c \in ConcurrentChanges :
           pc = "idle" /\ other.pc = "idle" /\ FsChange(c[1], c[2])

SpecConcurrent == InitConcurrent /\ [][NextConcurrent]_vars

\* ------------------------------------------------------- properties

\* path is root or below it, by whole path components
IsWithin(root, path) == path = root \/ startsWith(path, root \o <<"/">>)

\* The request carries a validator that matches the file: If-None-Match
\* equal to its ETag, or If-Modified-Since a date not before its mtime
ValidatorMatches(r, stats) ==
    \/ r.headers.inm # NoHeader /\ r.headers.inm = etagFromStats(stats)
    \/ /\ Len(r.headers.ims) = 2
       /\ r.headers.ims[1] = "date"
       /\ r.headers.ims[2] * 1000 >= stats.mtimeMs

\* The file is now as serveFile was given it
FileUnchanged == filePath \in DOMAIN fs /\ fs[filePath] = st

\* The body of a response that carries the bytes first..last of a file
Bytes(path, first, last) ==
    <<[kind |-> "file", path |-> path, start |-> first, end |-> last]>>

RangeHeader(s, e) == <<"b", "y", "t", "e", "s", "=">> \o s \o <<"-">> \o e

\* C1: for every request target, the absolute path the handler stats,
\* lists or streams is the root or a descendant of the root by whole path
\* components; a path in a sibling directory whose name starts with the
\* root's name is rejected and never served.
C1_WithinRoot ==
    /\ absPath # NoPath => IsWithin(rootResolved, absPath)
    /\ filePath # <<>> => IsWithin(rootResolved, filePath)
    /\ \A i \in 1..Len(res.body) :
           res.body[i].kind = "file" => IsWithin(rootResolved, res.body[i].path)

\* The file beside the root is streamed to the client
C1_Witness ==
    /\ pc = "done"
    /\ rootResolved = Root
    /\ req.url = <<"/", ".", ".", "%", "2", "f", "r", "o", "o", "t", "-", "e", "v", "i", "l", "%", "2", "f", "a", ".", "t", "x", "t">>
    /\ filePath = EvilFile
    /\ res.status = 200
    /\ res.body = Bytes(EvilFile, 0, 0)

\* Every "%" of the target begins "%25", no segment of it is a dot segment,
\* it has no backslash and no host part
DoublyEncoded(url) ==
    /\ Len(url) >= 2
    /\ url[2] # "/"
    /\ ~includes(url, "\\")
    /\ \A i \in 1..Len(url) :
           url[i] = "%" => i + 2 <= Len(url) /\ url[i + 1] = "2" /\ url[i + 2] = "5"
    /\ LET segs == SplitOn(url, {"/"})
       IN  \A i \in 1..Len(segs) : segs[i] \notin {<<".">>, <<".", ".">>}

\* text with every "%25" replaced by "%"
RECURSIVE Unescape25(_)
Unescape25(s) ==
    IF s = <<>> THEN <<>>
    ELSE IF Len(s) >= 3 /\ SubSeq(s, 1, 3) = <<"%", "2", "5">>
    THEN <<"%">> \o Unescape25(SubSeq(s, 4, Len(s)))
    ELSE <<Head(s)>> \o Unescape25(Tail(s))

\* root followed by the non-empty segments of path
RECURSIVE Below(_, _)
Below(root, segs) ==
    IF segs = <<>> THEN root
    ELSE IF Head(segs) = <<>> THEN Below(root, Tail(segs))
    ELSE Below(root \o <<"/">> \o Head(segs), Tail(segs))

\* C2: the request path is percent-decoded exactly once: a target whose
\* escapes are all double-encoded (%252e%252e, %252f) resolves to the path
\* below the root whose names are the target's segments with one level of
\* encoding removed, so %252e%252e is the literal name %2e%2e and %252f
\* is part of a name; it is never a parent-directory traversal.
C2_DecodedOnce ==
    (served > 0 /\ DoublyEncoded(req.url))
    => /\ absPath = Below(rootResolved, SplitOn(Unescape25(req.url), {"/"}))
       /\ IsWithin(rootResolved, absPath)

C2_Witness ==
    /\ pc = "done"
    /\ req.url = <<"/", "%", "2", "5", "2", "e", "%", "2", "5", "2", "e", "/", "r", "o", "o", "t", "-", "e", "v", "i", "l", "/", "a", ".", "t", "x", "t">>
    /\ absPath = <<"/", "p", "/", "r", "o", "o", "t", "/", "%", "2", "e", "%", "2", "e", "/", "r", "o", "o", "t", "-", "e", "v", "i", "l", "/", "a", ".", "t", "x", "t">>
    /\ res.status = 404

\* C3: for a file of size N and a GET with Range: bytes=a-b where
\* 0 <= a <= b < N and no matching validator, serveFile answers 206 with
\* Content-Range bytes a-b/N and Content-Length b-a+1, and streams exactly
\* the bytes a..b of the file (the file being unchanged when it is read).
C3_RangeServed ==
    \A a \in 0..MaxNum, b \in 0..MaxNum :
        (/\ filePath # <<>>
         /\ req.method = "GET"
         /\ a <= b
         /\ b < st.size
         /\ req.headers.range = RangeHeader(toString10(a), toString10(b))
         /\ ~ValidatorMatches(req, st))
        => /\ res.status = 206
           /\ res.headers["Content-Range"] = <<"bytes", a, b, st.size>>
           /\ res.headers["Content-Length"] = b - a + 1
           /\ (pc = "done" /\ FileUnchanged
               => res.ended /\ res.body = Bytes(filePath, a, b))

C3_Witness ==
    /\ pc = "done"
    /\ req.method = "GET"
    /\ req.headers.range = <<"b", "y", "t", "e", "s", "=", "1", "-", "2">>
    /\ st.size = 3
    /\ res.status = 206
    /\ res.body = Bytes(FileA, 1, 2)

\* The Range headers of the model whose first spec has no "-", a bound that
\* is no number, a start >= size, or a start > end
Unsatisfiable(range, size) ==
    \/ range \in {<<"b", "y", "t", "e", "s", "=", "2">>, <<"b", "y", "t", "e", "s", "=">>}
    \/ \E s \in RangeFields, e \in RangeFields :
           range = RangeHeader(s, e) /\ <<"z">> \in {s, e}
    \/ \E a \in 0..MaxNum, e \in RangeFields :
           range = RangeHeader(toString10(a), e) /\ a >= size
    \/ \E a \in 0..MaxNum, b \in 0..MaxNum :
           range = RangeHeader(toString10(a), toString10(b)) /\ a > b

C6_RepeatNotModified ==
    (/\ prev.some
     /\ pc = "done"
     /\ prev.req.method = "GET"
     /\ prev.filePath # <<>>
     /\ "ETag" \in DOMAIN prev.res.headers
     /\ req = [prev.req EXCEPT !.headers.inm = prev.res.headers["ETag"]]
     /\ filePath = prev.filePath
     /\ st.size = prev.st.size
     /\ st.mtimeMs = prev.st.mtimeMs)
    => /\ res.status = 304
       /\ res.body = <<>>
       /\ res.ended

C6_Witness ==
    /\ prev.some
    /\ pc = "done"
    /\ prev.req.method = "GET"
    /\ prev.req.headers.inm = NoHeader
    /\ prev.res.status = 200
    /\ prev.res.body # <<>>
    /\ req = [prev.req EXCEPT !.headers.inm = prev.res.headers["ETag"]]
    /\ st = prev.st
    /\ res.status = 304

\* C7: serveFile answers 304 if and only if If-None-Match is present and
\* equals the current ETag exactly, or If-Modified-Since is present, is a
\* date, and that instant is >= the file's modification instant; either
\* alone suffices, and an If-Modified-Since that is no date causes no 304.
C7_NotModifiedIff ==
    filePath # <<>> => (res.status = 304 <=> ValidatorMatches(req, st))

C7_Witness ==
    /\ pc = "done"
    /\ res.status = 304
    /\ req.headers.inm # NoHeader
    /\ req.headers.inm # etagFromStats(st)
    /\ req.headers.ims = HttpDate(1)
    /\ st.mtimeMs = 1000

\* C8: every 304 response carries ETag, Last-Modified, Cache-Control,
\* Content-Type and Accept-Ranges, and no Content-Length, no Content-Range
\* and no body.
C8_NotModifiedHead ==
    res.status = 304
    => /\ {"ETag", "Last-Modified", "Cache-Control", "Content-Type",
           "Accept-Ranges"} \subseteq DOMAIN res.headers
       /\ "Content-Length" \notin DOMAIN res.headers
       /\ "Content-Range" \notin DOMAIN res.headers
       /\ res.body = <<>>

C8_Witness ==
    /\ pc = "done"
    /\ res.status = 304
    /\ res.ended
    /\ res.headers["ETag"] = etagFromStats(st)

OtherMethod(m) == IF m = "GET" THEN "HEAD" ELSE "GET"

\* C9: for every request and every response it ends in, over the same
\* filesystem, the HEAD variant has the same status and the same headers
\* (Content-Length and Content-Range included) as the GET variant, and the
\* body of the answer to HEAD is empty.
C9_HeadAsGet ==
    /\ req.method = "HEAD" => res.body = <<>>
    /\ (/\ prev.some
        /\ pc = "done"
        /\ fsChanges = 0
        /\ req = [prev.req EXCEPT !.method = OtherMethod(prev.req.method)])
       => /\ res.status = prev.res.status
          /\ DOMAIN res.headers = DOMAIN prev.res.headers
          /\ \A h \in DOMAIN res.headers : res.headers[h] = prev.res.headers[h]

C9_Witness ==
    /\ prev.some
    /\ pc = "done"
    /\ fsChanges = 0
    /\ prev.req.method = "GET"
    /\ req = [prev.req EXCEPT !.method = "HEAD"]
    /\ prev.res.status = 206
    /\ prev.res.body # <<>>
    /\ res.status = 206
    /\ res.headers["Content-Length"] = 1
    /\ res.body = <<>>
    /\ res.ended

\* SPA mode is on, the root index.html is a file all along, and the request
\* is answered for a resolved path that does not exist
SpaFallback ==
    /\ pc = "done"
    /\ opts.spa
    /\ fsChanges = 0
    /\ fs[RootIndex].kind = "file"
    /\ absPath # NoPath
    /\ ~stat(fs, absPath).ok

\* The whole content of a file of that size
WholeFile(path, size) == IF size > 0 THEN Bytes(path, 0, size - 1) ELSE <<>>

\* C10 as the specification has it: with SPA mode on and a root index.html
\* present, every request whose resolved path does not exist is answered
\* with the content of the root index.html and always with status 200; the
\* method is kept, so HEAD gets no body.
C10_AlwaysOk ==
    SpaFallback
    => /\ res.status = 200
       /\ req.method = "GET" => res.body = WholeFile(RootIndex, fs[RootIndex].size)
       /\ req.method = "HEAD" => res.body = <<>>

\* C10: with SPA mode on and a root index.html present, every request whose
\* resolved path does not exist is answered by serveFile for the root
\* index.html with the method kept (HEAD gets no body): with status 200 and
\* the whole content when the request has no Range header and no validator
\* matching index.html, and with 304, 206 or 416 otherwise.
C10_FallbackAsFile ==
    SpaFallback
    => /\ filePath = RootIndex
       /\ st = fs[RootIndex]
       /\ req.method = "HEAD" => res.body = <<>>
       /\ IF req.headers.range = NoHeader /\ ~ValidatorMatches(req, st)
          THEN /\ res.status = 200
               /\ req.method = "GET" => res.body = WholeFile(RootIndex, st.size)
          ELSE res.status \in {304, 206, 416}

C10_Witness ==
    /\ SpaFallback
    /\ req.url = <<"/", "m", "i", "s", "s", "i", "n", "g">>
    /\ req.method = "GET"
    /\ req.headers.range = NoHeader
    /\ ~ValidatorMatches(req, st)
    /\ res.status = 200
    /\ res.body = Bytes(RootIndex, 0, 1)

\* The request is answered, the tree never changed, and its resolved path
\* is a directory
DirectoryRequest ==
    /\ pc = "done"
    /\ fsChanges = 0
    /\ absPath # NoPath
    /\ stat(fs, absPath).ok
    /\ fs[absPath].kind = "dir"

\* index.html of the directory the request resolved to
IndexOf(dir) == pathJoin(dir, <<"i", "n", "d", "e", "x", ".", "h", "t", "m", "l">>)

\* The answer is the 200 of a directory listing
IsListing(rs) ==
    /\ rs.status = 200
    /\ rs.headers["Content-Type"] = "text/html; charset=utf-8"
    /\ "ETag" \notin DOMAIN rs.headers

\* C11: a request whose resolved path is a directory that contains
\* index.html is answered by serveFile for that file, whatever the listing
\* option: with the file's validators and text/html; charset=utf-8, and with
\* its whole content in answer to a GET without Range and matching
\* validator.  The listing and the 403 are produced only when the directory
\* has no index.html.
C11_IndexServed ==
    /\ (DirectoryRequest /\ fileExists(fs, IndexOf(absPath)))
       => /\ filePath = IndexOf(absPath)
          /\ st = fs[filePath]
          /\ res.status \in {200, 206, 304, 416}
          /\ res.status \in {200, 206, 304}
             => \A h \in DOMAIN fileHeaders(filePath, st, opts) :
                    /\ h \in DOMAIN res.headers
                    /\ res.headers[h] = fileHeaders(filePath, st, opts)[h]
          /\ res.status \in {200, 206, 304}
             => res.headers["Content-Type"] = "text/html; charset=utf-8"
          /\ (req.headers.range = NoHeader /\ ~ValidatorMatches(req, st))
             => /\ res.status = 200
                /\ req.method = "GET" => res.body = WholeFile(filePath, st.size)
    /\ (DirectoryRequest /\ (res.status = 403 \/ IsListing(res)))
       => ~fileExists(fs, IndexOf(absPath))

\* With listing enabled, GET /sub/ gets the two bytes of /sub/index.html
C11_Witness ==
    /\ DirectoryRequest
    /\ opts.listing
    /\ req.method = "GET"
    /\ req.url = <<"/", "s", "u", "b", "/">>
    /\ req.headers.range = NoHeader
    /\ filePath = SubIndex
    /\ res.status = 200
    /\ res.headers["Content-Type"] = "text/html; charset=utf-8"
    /\ res.headers["ETag"] = etagFromStats(fs[SubIndex])
    /\ res.body = Bytes(SubIndex, 0, 1)
    /\ res.ended

\* The page listDirectory builds for the directory the request resolved to
PageOf(dir, path) ==
    listingPage(IF endsWith(path, <<"/">>) THEN path ELSE path \o <<"/">>, readdir(fs, dir))

\* C12: with listing disabled, every request whose resolved path is a
\* directory without index.html returns 403 and no entry of the directory
\* is in the response; with listing enabled the same request returns the
\* 200 HTML listing of that directory.
C12_ListingOrDenied ==
    (DirectoryRequest /\ ~fileExists(fs, IndexOf(absPath)))
    => IF opts.listing
       THEN /\ IsListing(res)
            /\ req.method = "GET" => res.body = <<PageOf(absPath, reqPath)>>
       ELSE /\ res.status = 403
            /\ Links(res) = {}
            /\ \A i \in 1..Len(res.body) : res.body[i].kind = "error"

\* With listing enabled and no index.html in the root, GET /% resolves to
\* the root and is answered 500 "Failed to read directory"
C12_Witness ==
    /\ DirectoryRequest
    /\ opts.listing
    /\ req.method = "GET"
    /\ req.url = <<"/", "%">>
    /\ absPath = Root
    /\ ~fileExists(fs, RootIndex)
    /\ res.status = 500
    /\ res.body = <<[kind |-> "error", code |-> 500, msg |-> "Failed to read directory"]>>

\* The statuses the handler answers with
Statuses == {200, 206, 304, 400, 403, 404, 416, 500}

\* C13: for every request and every outcome of the filesystem calls made
\* for it, once the handler and main's catch have run the response has a
\* head with a status in {200, 206, 304, 400, 403, 404, 416, 500} and is
\* ended: no request is left without a completed response.
C13_Completed ==
    pc = "done" => res.status \in Statuses /\ res.ended

\* GET / for a root whose index.html is empty: the head of the 200 is
\* written, createReadStream rejects the span 0..-1, and nothing ends the
\* response
C13_Witness ==
    /\ pc = "done"
    /\ fsChanges = 0
    /\ req.method = "GET"
    /\ req.url = <<"/">>
    /\ filePath = RootIndex
    /\ st.size = 0
    /\ span = [start |-> 0, end |-> -1]
    /\ res.status = 200
    /\ res.headers["Content-Length"] = 0
    /\ ~res.ended

\* C14: no failure of a filesystem call of the handler (the stat of the
\* target, the existence check and the stat of an index.html, the
\* directory enumeration) makes the handler's promise reject and reach
\* main's catch: the handler rejects only when new URL refuses the request
\* target, or inside serveFile once it was given a file.
C14_CaughtInHandler ==
    rejected => urlPathname(req.url) = InvalidUrl \/ filePath # <<>>

\* The index.html of /sub is removed between fileExists and stat: the
\* handler rejects and main's catch answers 500
C14_Witness ==
    /\ pc = "done"
    /\ rejected
    /\ fsChanges = 1
    /\ req.url = <<"/", "s", "u", "b", "/">>
    /\ absPath = SubDir
    /\ ~fileExists(fs, SubIndex)
    /\ filePath = <<>>
    /\ res.status = 500
    /\ res.body = <<[kind |-> "error", code |-> 500, msg |-> "Internal Server Error"]>>

\* The path has a "%" that does not begin an escape of two hex digits
Malformed(path) ==
    \E i \in 1..Len(path) : path[i] = "%" /\ ~IsEscapeAt(path, i)

\* The decoded path resolves to a path that does not begin with the root
Unsafe(path) ==
    /\ ~Malformed(path)
    /\ decodeURIComponent(path).ok
    /\ ~startsWith(pathResolve(rootResolved,
            <<".">> \o StripNul(decodeURIComponent(path).str)), rootResolved)

Entities == {<<"&", "a", "m", "p", ";">>, <<"&", "l", "t", ";">>, <<"&", "g", "t", ";">>, <<"&", "q", "u", "o", "t", ";">>, <<"&", "#", "3", "9", ";">>}

\* The text holds none of < > " ' and each "&" of it begins an entity
NoMarkup(s) ==
    \A i \in 1..Len(s) :
        /\ s[i] \notin {"<", ">", "\"", "'"}
        /\ s[i] = "&" => \E e \in Entities : startsWith(SubSeq(s, i, Len(s)), e)

\* What a browser shows for the text: each entity as its character
RECURSIVE Shown(_)
Shown(s) ==
    IF s = <<>> THEN <<>>
    ELSE IF startsWith(s, <<"&", "a", "m", "p", ";">>) THEN <<"&">> \o Shown(SubSeq(s, 6, Len(s)))
    ELSE IF startsWith(s, <<"&", "l", "t", ";">>) THEN <<"<">> \o Shown(SubSeq(s, 5, Len(s)))
    ELSE IF startsWith(s, <<"&", "g", "t", ";">>) THEN <<">">> \o Shown(SubSeq(s, 5, Len(s)))
    ELSE IF startsWith(s, <<"&", "q", "u", "o", "t", ";">>) THEN <<"\"">> \o Shown(SubSeq(s, 7, Len(s)))
    ELSE IF startsWith(s, <<"&", "#", "3", "9", ";">>) THEN <<"'">> \o Shown(SubSeq(s, 6, Len(s)))
    ELSE <<Head(s)>> \o Shown(Tail(s))

\* The listing pages a response carries
Pages(rs) == {rs.body[i] : i \in {j \in 1..Len(rs.body) : rs.body[j].kind = "listing"}}

\* C16: in every directory listing the page title and heading and each
\* displayed entry name hold none of < > " ' and no "&" except in the five
\* entities, and are shown as the directory's path and its entries' names;
\* no href ends its attribute or opens a tag.
C16_ListingEscaped ==
    \A page \in Pages(res) :
        /\ NoMarkup(page.title)
        /\ endsWith(Shown(page.title), <<"/">>)
        /\ absPath = pathResolve(rootResolved, <<".">> \o Shown(page.title))
        /\ \A it \in page.items : NoMarkup(it.text)
        /\ {Shown(it.text) : it \in page.items} = {itemName(e) : e \in readdir(fs, absPath)}
        /\ \A it \in page.items : \A i \in 1..Len(it.href) : it.href[i] \notin {"<", ">", "\""}

\* The root's listing shows the file <i>'&".txt and the directory <&>"'
\* escaped, and the listing of that directory, reached by its link, has
\* its name escaped in the title
C16_Witness ==
    /\ pc = "done"
    /\ prev.some
    /\ prev.absPath = Root
    /\ \E page \in Pages(prev.res) :
           /\ \E it \in page.items : it.text = <<"&", "l", "t", ";", "i", "&", "g", "t", ";", "&", "#", "3", "9", ";", "&", "a", "m", "p", ";", "&", "q", "u", "o", "t", ";", ".", "t", "x", "t">>
           /\ \E it \in page.items : it.text = <<"&", "l", "t", ";", "&", "a", "m", "p", ";", "&", "g", "t", ";", "&", "q", "u", "o", "t", ";", "&", "#", "3", "9", ";", "/">> /\ it.href = req.url
    /\ absPath = OddDir
    /\ \E page \in Pages(res) :
           /\ page.title = <<"/", "&", "l", "t", ";", "&", "a", "m", "p", ";", "&", "g", "t", ";", "&", "q", "u", "o", "t", ";", "&", "#", "3", "9", ";", "/">>
           /\ \E it \in page.items : it.text = <<"x", ".", "t", "x", "t">>

\* The request is a GET of the href the listing before it gave for entry
\* e of the directory it listed
FollowedLinkTo(e) ==
    /\ pc = "done"
    /\ prev.some
    /\ Pages(prev.res) # {}
    /\ e \in readdir(fs, prev.absPath)
    /\ \E page \in Pages(prev.res) : \E it \in page.items :
           it.text = escapeHtml(itemName(e)) /\ it.href = req.url

\* C17: listing links round-trip: for every entry of a listed directory,
\* names with #, ?, %, & and space included, a GET of the entry's href is
\* resolved by the server to exactly that entry and answered with it.
C17_LinksRoundTrip ==
    \A e \in readdir(fs, prev.absPath) :
        FollowedLinkTo(e)
        => /\ absPath = pathJoin(prev.absPath, e[1])
           /\ res.status = 200
           /\ ~e[2] => filePath = absPath

\* The link of the file a#b is /a#b, which the server reads as the path /a:
\* the file a is served in its place
C17_Witness ==
    /\ FollowedLinkTo(<<<<"a", "#", "b">>, FALSE>>)
    /\ prev.absPath = Root
    /\ req.url = <<"/", "a", "#", "b">>
    /\ reqPath = <<"/", "a">>
    /\ filePath = Root \o <<"/", "a">>
    /\ res.status = 200
    /\ res.body = Bytes(Root \o <<"/", "a">>, 0, 1)

\* The path holds a percent-encoded NUL
HasNul(path) == \E i \in 1..Len(path) - 2 : SubSeq(path, i, i + 2) = <<"%", "0", "0">>

\* The path with each "%00" taken out
RECURSIVE WithoutNul(_)
WithoutNul(path) ==
    IF path = <<>> THEN <<>>
    ELSE IF startsWith(path, <<"%", "0", "0">>) THEN WithoutNul(SubSeq(path, 4, Len(path)))
    ELSE <<Head(path)>> \o WithoutNul(Tail(path))

PlainGet(url) ==
    /\ pc = "done"
    /\ req = Request("GET", url, NoHeader, NoHeader, NoHeader)

\* The answer is the 200 with the whole content of the file
ServedWhole(path) ==
    /\ res.status = 200
    /\ filePath = path
    /\ res.body = WholeFile(path, fs[path].size)
    /\ res.ended

\* C19: for a file a.txt in the root, the requests //a.txt and /./a.txt
\* return 200 with the content of a.txt, and /x/../a.txt returns either 200
\* with that content or a status other than 500.
C19_NormalizedTarget ==
    /\ PlainGet(<<"/", "/", "a", ".", "t", "x", "t">>) => ServedWhole(FileA)
    /\ PlainGet(<<"/", ".", "/", "a", ".", "t", "x", "t">>) => ServedWhole(FileA)
    /\ PlainGet(<<"/", "x", "/", ".", ".", "/", "a", ".", "t", "x", "t">>) => ServedWhole(FileA) \/ res.status \notin {200, 500}

\* GET //a.txt is read as a request for the path "/" on the host a.txt:
\* it is answered with the listing of the root
C19_Witness ==
    /\ PlainGet(<<"/", "/", "a", ".", "t", "x", "t">>)
    /\ fs[FileA].kind = "file"
    /\ reqPath = <<"/">>
    /\ absPath = Root
    /\ filePath = <<>>
    /\ res.status = 200
    /\ \E page \in Pages(res) : \E it \in page.items : it.href = <<"/", "a", ".", "t", "x", "t">>

\* The Cache-Control of a file response for the --cache argument given
CacheControlFor(a) ==
    IF a.finite /\ a.val > 0 THEN <<"public, max-age=", a.val>> ELSE <<"no-cache">>

\* C20: every file response (200, 206, 304) carries Cache-Control
\* "public, max-age=N" when the configured number of seconds N is > 0 and
\* "no-cache" otherwise; a negative or non-numeric configured value is
\* clamped to 0 and so yields "no-cache".
C20_CacheControl ==
    /\ opts.cacheSeconds >= 0
    /\ ~args.cacheSeconds.finite \/ args.cacheSeconds.val < 0 => opts.cacheSeconds = 0
    /\ (filePath # <<>> /\ res.status \in {200, 206, 304})
       => /\ "Cache-Control" \in DOMAIN res.headers
          /\ res.headers["Cache-Control"] = CacheControlFor(args.cacheSeconds)

\* With --cache -1 a file is answered 206 with no-cache
C20_Witness ==
    /\ pc = "done"
    /\ args.cacheSeconds = Num(-1)
    /\ filePath = FileA
    /\ res.status = 206
    /\ res.headers["Cache-Control"] = <<"no-cache">>

\* What one call of the handler answers when it runs alone against the
\* tree f: after serveFile for a file of f
AloneServed(site, r, path, sv) ==
    IF sv.threw THEN afterThrow(site, sv.res, r.method)
    ELSE IF ~sv.stream THEN sv.res
    ELSE resEnd(sv.res, r.method, Bytes(path, sv.start, sv.end))

AloneServe(site, r, f, path) ==
    AloneServed(site, r, path, serveFile(r, NoRes, path, f[path], opts))

AloneListed(r, body) ==
    resEnd(writeHead(NoRes, 200,
               ("Content-Type" :> "text/html; charset=utf-8")
               @@ ("Content-Length" :> byteLength(body))
               @@ ("Cache-Control" :> <<"no-cache">>)),
           r.method, <<body>>)

AloneList(r, f, dir, slashed) ==
    IF decodeURI(slashed).ok
    THEN AloneListed(r, listingPage(slashed, readdir(f, dir)))
    ELSE sendError(NoRes, r.method, 500, "Failed to read directory").res

AloneDir(r, f, dir, path) ==
    IF fileExists(f, IndexOf(dir)) THEN AloneServe("dir", r, f, IndexOf(dir))
    ELSE IF ~opts.listing
    THEN sendError(NoRes, r.method, 403, "Directory listing denied").res
    ELSE AloneList(r, f, dir, IF endsWith(path, <<"/">>) THEN path ELSE path \o <<"/">>)

AloneMissing(r, f) ==
    IF opts.spa /\ fileExists(f, IndexOf(rootResolved))
    THEN AloneServe("spa", r, f, IndexOf(rootResolved))
    ELSE sendError(NoRes, r.method, 404, "Not Found").res

AloneAt(r, f, path, abs) ==
    IF abs = NoPath THEN sendError(NoRes, r.method, 400, "Bad Request").res
    ELSE IF ~stat(f, abs).ok THEN AloneMissing(r, f)
    ELSE IF f[abs].kind = "dir" THEN AloneDir(r, f, abs, path)
    ELSE AloneServe("file", r, f, abs)

AlonePath(r, f, path) ==
    IF path = InvalidUrl THEN mainCatch(NoRes, r.method)
    ELSE AloneAt(r, f, path, safeJoin(rootResolved, path))

Alone(r, f) == AlonePath(r, f, urlPathname(r.url))

\* C21: requests are independent.  For every interleaving of two calls of
\* the handler at their awaits, each answered request has the response it
\* would have were it handled alone: the one its method, path and headers,
\* the options and the tree give.  The tree changing between requests
\* included: the later request is answered from the changed tree.
C21_Independent ==
    /\ pc = "done" => res = Alone(req, fs)
    /\ other.pc = "done" => other.res = Alone(other.req, fs)

\* After a.txt changed, and while a GET /a.txt has written its head for
\* the one byte the file now has and waits to stream it, a GET / is
\* answered with the listing
C21_Witness ==
    /\ fsChanges = 1
    /\ fs[FileA] = File(1, 2000)
    /\ pc = "done"
    /\ req = Request("GET", <<"/">>, NoHeader, NoHeader, NoHeader)
    /\ Pages(res) # {}
    /\ other.pc = "stream"
    /\ other.req = Request("GET", <<"/", "a", ".", "t", "x", "t">>, NoHeader, NoHeader, NoHeader)
    /\ other.res.status = 200
    /\ other.res.headers["Content-Length"] = 1
    /\ other.res.headers["ETag"] = etagFromStats(File(1, 2000))
    /\ ~other.res.ended

\* The number a text of lower-case hex digits writes, -1 when it is none
RECURSIVE HexNumber(_, _)
HexNumber(text, acc) ==
    IF text = <<>> THEN acc
    ELSE IF \E i \in 1..16 : HexDigits[i] = Head(text)
    THEN HexNumber(Tail(text), 16 * acc + HexVal(Head(text)))
    ELSE -1

\* The tag is W/"<size in hex>-<mtime in hex>"
IsEtagOf(tag, size, mtimeMs) ==
    \E k \in 5..Len(tag) - 2 :
        /\ SubSeq(tag, 1, 3) = <<"W", "/", "\"">>
        /\ tag[k] = "-"
        /\ tag[Len(tag)] = "\""
        /\ HexNumber(SubSeq(tag, 4, k - 1), 0) = size
        /\ HexNumber(SubSeq(tag, k + 1, Len(tag) - 1), 0) = mtimeMs

\* Stats to compare with: the sizes and times of the files served, and
\* those whose hex digits are theirs divided otherwise
EtagStats ==
    {File(s, m) :
        s \in 0..MaxSize \cup {16 * a + (b \div 256) : a \in 1..MaxSize, b \in {1000, 1500, 2000}},
        m \in {1000, 1500, 2000, 1000 % 256, 1500 % 256, 2000 % 256}}

\* C22: the ETag of a file response is W/"<sizeHex>-<mtimeHex>" of the
\* stat serveFile was given, and it is determined by exactly the pair
\* (size, mtime): a stat has the same ETag if and only if it has the same
\* size and the same mtime.
C22_EtagOfPair ==
    (pc = "done" /\ filePath # <<>> /\ "ETag" \in DOMAIN res.headers)
    => /\ IsEtagOf(res.headers["ETag"], st.size, st.mtimeMs)
       /\ \A b \in EtagStats :
              etagFromStats(b) = res.headers["ETag"]
              <=> (b.size = st.size /\ b.mtimeMs = st.mtimeMs)

\* a.txt of 3 bytes and mtime 1000 is answered with the ETag W/"3-3e8"
C22_Witness ==
    /\ pc = "done"
    /\ filePath = FileA
    /\ st = File(3, 1000)
    /\ res.status = 200
    /\ res.headers["ETag"] = <<"W", "/", "\"", "3", "-", "3", "e", "8", "\"">>

\* C23: for every file size and every Range header serveFile accepts as
\* satisfiable (the response is 206), the span it serves satisfies
\* 0 <= start <= end <= size - 1, the Content-Range names that span, and
\* Content-Length is end - start + 1 >= 1.
C23_SpanWithinFile ==
    (filePath # <<>> /\ res.status = 206)
    => /\ isRanged(req.headers.range)
       /\ 0 <= span.start
       /\ span.start <= span.end
       /\ span.end <= st.size - 1
       /\ res.headers["Content-Range"] = <<"bytes", span.start, span.end, st.size>>
       /\ res.headers["Content-Length"] = span.end - span.start + 1
       /\ res.headers["Content-Length"] >= 1

\* bytes=1-4 of a file of 3 bytes: the end is clamped and the bytes 1..2
\* are served
C23_Witness ==
    /\ pc = "done"
    /\ req.headers.range = <<"b", "y", "t", "e", "s", "=", "1", "-", "4">>
    /\ req.method = "GET"
    /\ st.size = 3
    /\ res.status = 206
    /\ span = [start |-> 1, end |-> 2]
    /\ res.headers["Content-Length"] = 2
    /\ res.body = Bytes(FileA, 1, 2)

\* C24: the conditional evaluation precedes the range evaluation: a file
\* request with a matching validator (If-None-Match equal to the ETag, or
\* If-Modified-Since not before the mtime) is answered 304 whatever its
\* Range header, never 206 or 416; a 206 or 416 is given only when no
\* validator matches.
C24_ConditionalFirst ==
    filePath # <<>>
    => /\ ValidatorMatches(req, st) => res.status = 304 /\ res.body = <<>>
       /\ res.status \in {206, 416} => ~ValidatorMatches(req, st)

\* A request with the file's ETag and a Range no file satisfies is
\* answered 304
C24_Witness ==
    /\ pc = "done"
    /\ filePath = FileA
    /\ req.headers.inm = etagFromStats(st)
    /\ req.headers.range = <<"b", "y", "t", "e", "s", "=", "4", "-", "1">>
    /\ Unsatisfiable(req.headers.range, st.size)
    /\ res.status = 304
    /\ res.ended

\* C25: when reading the file fails after the head of a 200 or 206 was
\* written, no second head is written and no further bytes, such as an error
\* message, are appended to the body: the body of a 200 or 206 of a file
\* holds bytes of the file only.
C25_NothingAfterHead ==
    (filePath # <<>> /\ res.status \in {200, 206})
    => \A i \in DOMAIN res.body : res.body[i].kind = "file"

\* a.txt is removed after the head of its 200 was written: the stream's
\* error handler ends the response with its message as the body
C25_Witness ==
    /\ pc = "done"
    /\ req.method = "GET"
    /\ filePath = FileA
    /\ fs[FileA] = NoEntry
    /\ res.status = 200
    /\ res.headers["Content-Length"] = st.size
    /\ res.body = <<[kind |-> "text", text |-> "Internal Server Error"]>>
    /\ res.ended

\* The request for "/" with the method and headers of r
RootRequest(r) ==
    Request(r.method, <<"/">>, r.headers.inm, r.headers.ims, r.headers.range)

\* C26: a request path that fails percent-decoding is treated as the root:
\* for every configuration and tree the request is answered, and with the
\* status a request for "/" with the same method and headers has (that of
\* the root's index.html, of the listing, or 403).
C26_MalformedAsRoot ==
    (pc = "done" /\ Malformed(reqPath))
    => /\ ~rejected
       /\ res.ended
       /\ res.status = Alone(RootRequest(req), fs).status

\* GET /% with listings enabled and no index.html in the root: the root is
\* listed for "/", and this request is answered 500
C26_Witness ==
    /\ pc = "done"
    /\ req = Request("GET", <<"/", "%">>, NoHeader, NoHeader, NoHeader)
    /\ opts.listing
    /\ ~fileExists(fs, RootIndex)
    /\ absPath = rootResolved
    /\ Pages(Alone(RootRequest(req), fs)) # {}
    /\ Alone(RootRequest(req), fs).status = 200
    /\ res.status = 500
    /\ res.ended

\* C27: when a GET for a file returned a Last-Modified and the file has not
\* changed, the same GET repeated with If-Modified-Since equal to that value
\* is answered 304, for every modification time, those with a millisecond
\* part included.
C27_SinceRoundTrip ==
    (/\ prev.some
     /\ pc = "done"
     /\ prev.req.method = "GET"
     /\ prev.filePath # <<>>
     /\ "Last-Modified" \in DOMAIN prev.res.headers
     /\ req = [prev.req EXCEPT !.headers.ims = prev.res.headers["Last-Modified"]]
     /\ filePath = prev.filePath
     /\ st = prev.st)
    => res.status = 304

\* a.txt was modified at 1500 ms: its Last-Modified is the date of second 1,
\* which sent back as If-Modified-Since is before the mtime, and the file is
\* sent again
C27_Witness ==
    /\ prev.some
    /\ pc = "done"
    /\ fsChanges = 0
    /\ prev.req = Request("GET", <<"/", "a", ".", "t", "x", "t">>, NoHeader, NoHeader, NoHeader)
    /\ prev.st.mtimeMs = 1500
    /\ prev.res.status = 200
    /\ prev.res.headers["Last-Modified"] = HttpDate(1)
    /\ req = [prev.req EXCEPT !.headers.ims = HttpDate(1)]
    /\ st = prev.st
    /\ res.status = 200
    /\ res.body = Bytes(FileA, 0, st.size - 1)

\* The number of bytes a body holds
RECURSIVE BodyBytes(_)
BodyBytes(body) ==
    IF body = <<>> THEN 0
    ELSE (IF Head(body).kind = "file" THEN Head(body).end - Head(body).start + 1
          ELSE Len(Head(body).text))
         + BodyBytes(Tail(body))

\* C28: every completed GET of a file answered 200 or 206 carries as many
\* body bytes as its Content-Length says (end - start + 1 of the stat), also
\* when another process truncates, replaces or removes the file between the
\* stat and the end of the streaming.
C28_LengthSent ==
    (/\ pc = "done"
     /\ req.method = "GET"
     /\ filePath # <<>>
     /\ res.status \in {200, 206}
     /\ res.ended)
    => /\ res.headers["Content-Length"] = span.end - span.start + 1
       /\ BodyBytes(res.body) = res.headers["Content-Length"]

\* a.txt had 3 bytes when it was stat and has 1 when it is read: the 200
\* announces 3 bytes and carries 1
C28_Witness ==
    /\ pc = "done"
    /\ req = Request("GET", <<"/", "a", ".", "t", "x", "t">>, NoHeader, NoHeader, NoHeader)
    /\ st = File(3, 1000)
    /\ fs[FileA] = File(1, 2000)
    /\ res.status = 200
    /\ res.headers["Content-Length"] = 3
    /\ res.body = Bytes(FileA, 0, 0)
    /\ res.ended

\* C29: a GET without Range of a file of length zero terminates: it is
\* answered 200 with Content-Length 0 and an empty body, and the response
\* is ended (the read stream is given start = 0 and end = size - 1 = -1).
C29_EmptyFileEnds ==
    (/\ pc = "done"
     /\ req.method = "GET"
     /\ req.headers.range = NoHeader
     /\ filePath # <<>>
     /\ st.size = 0
     /\ ~ValidatorMatches(req, st))
    => /\ res.status = 200
       /\ res.headers["Content-Length"] = 0
       /\ res.body = <<>>
       /\ res.ended

\* GET /a.txt of an empty a.txt: the head of the 200 is written, opening
\* the read stream for 0..-1 throws, the handler's catch sends nothing
\* because the head is out, and the response stays open
C29_Witness ==
    /\ pc = "done"
    /\ req = Request("GET", <<"/", "a", ".", "t", "x", "t">>, NoHeader, NoHeader, NoHeader)
    /\ filePath = FileA
    /\ fs[FileA] = st
    /\ st.size = 0
    /\ readStreamThrows(span.start, span.end)
    /\ res.status = 200
    /\ res.headers["Content-Length"] = 0
    /\ res.body = <<>>
    /\ ~res.ended
    /\ ~rejected

====
